---- MODULE Spec2Model ----
(***************************************************************************)
(* Verification model of the regex-dfa compilation core (src/src/nfa.rs)   *)
(* and of the threaded matching engine (src/src/threaded.rs).              *)
(*                                                                         *)
(* The module holds several specifications over one set of variables:      *)
(*   Spec      the threaded engine running one query                      *)
(* Variables a specification does not use keep their initial value.        *)
(***************************************************************************)
EXTENDS Integers, Sequences, FiniteSets, TLC

VARIABLES
    \* ---- threaded engine (threaded.rs)
    prog,       \* the compiled program (Program: step table, eoi table, init table)
    text,       \* the input string, a sequence of code points
    threads,    \* ProgThreads: [cur: Threads, next: Threads]
    acc,        \* Option<(usize, usize)>: the remembered match
    pos,        \* byte position of the scan
    epc,        \* position in shortest_match_: "idle", "loop", "eoi", "done"
    ret,        \* the value shortest_match_ returned
    \* ---- compiler (nfa.rs)
    nfa,        \* the Nfa being compiled
    orig,       \* the Nfa as it was before the operation under study
    max_states, \* the max_states argument of the running operation
    work,       \* locals of the running operation (loop index, initial_preds, ...)
    out,        \* what the operation returned (Ok / Err(TooManyStates), the Dfa)
    cpc         \* position in the compiler operation

evars == <<prog, text, threads, acc, pos, epc, ret>>
cvars == <<nfa, orig, max_states, work, out, cpc>>
vars == <<prog, text, threads, acc, pos, epc, ret, nfa, orig, max_states, work, out, cpc>>

(***************************************************************************)
(* Option<T>: None is the empty tuple, Some(x) the one-element tuple.      *)
(***************************************************************************)
None == << >>
Some(x) == <<x>>
IsSome(o) == o # None
Unwrap(o) == o[1]

RECURSIVE SumSeq(_)
SumSeq(s) == IF s = << >> THEN 0 ELSE Head(s) + SumSeq(Tail(s))

SetMax(S) == CHOOSE x \in S : \A y \in S : y <= x
SetMin(S) == CHOOSE x \in S : \A y \in S : x <= y

(***************************************************************************)
(* UTF-8 length of a code point (char::len_utf8).                          *)
(***************************************************************************)
LenUtf8(c) == IF c < 128 THEN 1 ELSE IF c < 2048 THEN 2 ELSE IF c < 65536 THEN 3 ELSE 4

\* s.len(): the byte length of a string
StrLen(s) == SumSeq([i \in 1..Len(s) |-> LenUtf8(s[i])])

\* byte offset at which the k-th char (1-based) of s starts
OffsetOf(s, k) == SumSeq([i \in 1..(k-1) |-> LenUtf8(s[i])])

\* s.char_at(p): the char starting at byte offset p
CharAt(s, p) == s[CHOOSE k \in 1..Len(s) : OffsetOf(s, k) = p]

(***************************************************************************)
(* The program interface (program.rs is not part of the sources): a table  *)
(* step(state, ch) -> (next, accept, retry), check_eoi(state), and         *)
(* init.state_after(last_char).                                            *)
(***************************************************************************)
MaxTextLen == 2

\* the program's states: prog.insts.len() = 2
ProgStates == {0, 1}
NumInsts == Cardinality(ProgStates)
LastInst == SetMax(ProgStates)
\* 'a' (one byte) and U+00E9 (two bytes)
Alphabet == {97, 233}
OptChar == {None} \cup {Some(c) : c \in Alphabet}
OptState == {None} \cup {Some(q) : q \in ProgStates}

StepResult(n, a, r) == [next |-> n, accept |-> a, retry |-> r]

StepOutcomes ==
    {StepResult(n, a, FALSE) : n \in OptState, a \in BOOLEAN}
        \cup {StepResult(Some(LastInst), FALSE, TRUE)}

\* "after one retry, the next step on the same character will not retry again
\* nor accept"
RetryContract(step) ==
    \A q \in ProgStates, c \in Alphabet :
        step[<<q, c>>].retry =>
            /\ IsSome(step[<<q, c>>].next)
            /\ ~step[<<Unwrap(step[<<q, c>>].next), c>>].retry
            /\ ~step[<<Unwrap(step[<<q, c>>].next), c>>].accept

StepTables == {st \in [ProgStates \X Alphabet -> StepOutcomes] : RetryContract(st)}

\* the initial-state tables tried: unanchored, anchored at the start of the
\* input, initial only after 'a', initial at the start or after U+00E9
InitTable(atStart, afterA, afterE) ==
    [lc \in OptChar |-> IF lc = None THEN atStart
                        ELSE IF lc = Some(97) THEN afterA ELSE afterE]

InitTables ==
    {InitTable(Some(0), Some(0), Some(0)), InitTable(Some(0), None, None),
     InitTable(None, Some(0), None), InitTable(Some(0), None, Some(0))}

Programs ==
    [insts : {NumInsts}, step : StepTables, eoi : [ProgStates -> BOOLEAN],
     init : InitTables]

RECURSIVE SeqsUpTo(_, _)
SeqsUpTo(S, n) ==
    IF n = 0 THEN {<< >>}
    ELSE LET shorter == SeqsUpTo(S, n - 1)
         IN shorter \cup {Append(s, c) : s \in shorter, c \in S}

Texts == SeqsUpTo(Alphabet, MaxTextLen)

\* Program::step and Program::check_eoi, InitStates::state_after
ProgStep(p, state, ch) == p.step[<<state, ch>>]
CheckEoi(p, state) == p.eoi[state]
StateAfter(p, last_char) == p.init[last_char]

(***************************************************************************)
(* The skipper used for Prefix::Empty, NoSkipper(&prog.init)               *)
(* (searcher.rs is not part of the sources): the next position at or       *)
(* after `from` at which the program has an initial state.                 *)
(* Returns Option<(match_start, resume_pos, init_state)>.                  *)
(***************************************************************************)
\* char indices (1-based, Len(s)+1 is the end) at or after byte offset `from`
\* at which a thread may start
SkipCandidates(p, s, from, last_char) ==
    {k \in 1..(Len(s) + 1) :
        /\ OffsetOf(s, k) >= from
        /\ IsSome(StateAfter(p,
               IF OffsetOf(s, k) = from THEN last_char ELSE Some(s[k - 1])))}

Skip(p, s, from, last_char) ==
    LET cand == SkipCandidates(p, s, from, last_char)
    IN IF cand = {} THEN None
       ELSE LET k == SetMin(cand)
                o == OffsetOf(s, k)
                lc == IF o = from THEN last_char ELSE Some(s[k - 1])
            IN Some(<<o, o, Unwrap(StateAfter(p, lc))>>)

(***************************************************************************)
(* Threads and ProgThreads (threaded.rs).                                  *)
(***************************************************************************)
Thread(state, start_idx) == [state |-> state, start_idx |-> start_idx]

\* vec![0; n]: Vec index q is position q + 1 of the sequence
RECURSIVE Zeros(_)
Zeros(n) == IF n = 0 THEN << >> ELSE Append(Zeros(n - 1), 0)

\* Threads::with_capacity
ThreadsWithCapacity(n) == [threads |-> << >>, states |-> Zeros(n)]

\* a Threads::add that puts the new thread in front of the list
ThreadsAddFront(t, state, start_idx) ==
    IF t.states[state + 1] = 0
    THEN [threads |-> <<Thread(state, start_idx)>> \o t.threads,
          states |-> [t.states EXCEPT ![state + 1] = 1]]
    ELSE t

\* Threads::add
ThreadsAdd(t, state, start_idx) ==
    IF t.states[state + 1] = 0
    THEN [threads |-> Append(t.threads, Thread(state, start_idx)),
          states |-> [t.states EXCEPT ![state + 1] = 1]]
    ELSE t

\* Threads::starts_after
StartsAfter(t, start_idx) ==
    t.threads = << >> \/ t.threads[1].start_idx >= start_idx

\* ProgThreads::with_capacity
ProgThreadsWithCapacity(n) ==
    [cur |-> ThreadsWithCapacity(n), next |-> ThreadsWithCapacity(n)]

\* ProgThreads::swap
ProgThreadsSwap(pt) ==
    [cur |-> pt.next, next |-> [pt.cur EXCEPT !.threads = << >>]]

\* a ProgThreads::clear that empties the two vectors and leaves the bitmaps
ProgThreadsClearVectors(pt) ==
    [cur |-> [threads |-> << >>, states |-> pt.cur.states],
     next |-> [threads |-> << >>, states |-> pt.next.states]]

\* ProgThreads::clear
ProgThreadsClear(pt) ==
    [cur |-> [threads |-> << >>, states |-> Zeros(Len(pt.cur.states))],
     next |-> [threads |-> << >>, states |-> Zeros(Len(pt.next.states))]]

(***************************************************************************)
(* ThreadedEngine::advance_thread: thread i (1-based here) of cur is       *)
(* stepped on ch; st is the pair [threads, acc].                           *)
(***************************************************************************)
AdvanceThread(p, st, i, ch, end) ==
    LET state == st.threads.cur.threads[i].state
        start_idx == st.threads.cur.threads[i].start_idx
        cleared == [st.threads EXCEPT !.cur.states[state + 1] = 0]
        r == ProgStep(p, state, ch)
        acc1 == IF r.accept /\ (st.acc = None \/ start_idx < Unwrap(st.acc)[1])
                THEN Some(<<start_idx, end>>)
                ELSE st.acc
        next_state == IF r.retry
                      THEN ProgStep(p, Unwrap(r.next), ch).next
                      ELSE r.next
    IN [threads |-> IF IsSome(next_state)
                    THEN [cleared EXCEPT
                            !.next = ThreadsAdd(cleared.next, Unwrap(next_state), start_idx)]
                    ELSE cleared,
        acc |-> acc1]

\* for i in 0..threads.cur.threads.len() { advance_thread(...) }
RECURSIVE AdvanceAll(_, _, _, _, _)
AdvanceAll(p, st, i, ch, end) ==
    IF i > Len(st.threads.cur.threads) THEN st
    ELSE AdvanceAll(p, AdvanceThread(p, st, i, ch, end), i + 1, ch, end)

(***************************************************************************)
(* ThreadedEngine::shortest_match_ as a process.                           *)
(*   "idle"     no query running                                           *)
(*   "loop"     at the head of `while pos < s.len()`                       *)
(*   "swapped"  inside the loop body, right after threads.swap()           *)
(*   "done"     returned; ret holds the result                             *)
(***************************************************************************)
CompilerIdle ==
    /\ nfa = << >>
    /\ orig = << >>
    /\ max_states = 0
    /\ work = << >>
    /\ out = << >>
    /\ cpc = "unused"

EngineInit ==
    /\ CompilerIdle
    /\ prog \in Programs
    /\ text = << >>
    /\ threads = ProgThreadsWithCapacity(prog.insts)
    /\ acc = None
    /\ pos = 0
    /\ epc = "idle"
    /\ ret = None

\* lines 137-146: the first skip and the seeding of cur
StartQuery ==
    /\ epc = "idle"
    /\ \E s \in Texts :
        LET sk == Skip(prog, s, 0, None)
        IN /\ text' = s
           /\ acc' = None
           /\ IF sk = None
              THEN /\ epc' = "done"
                   /\ ret' = None
                   /\ UNCHANGED <<threads, pos>>
              ELSE /\ epc' = "loop"
                   /\ pos' = Unwrap(sk)[2]
                   /\ threads' =
                        [ProgThreadsClear(threads) EXCEPT
                            !.cur.threads = <<Thread(Unwrap(sk)[3], Unwrap(sk)[1])>>]
                   /\ UNCHANGED ret
    /\ UNCHANGED <<prog, cvars>>

\* line 126: next_state.unwrap() aborts when a thread of t is stepped on ch
\* and the step reports retry without a next state
StepPanics(p, t, ch) ==
    \E i \in 1..Len(t.threads) :
        /\ ProgStep(p, t.threads[i].state, ch).retry
        /\ ProgStep(p, t.threads[i].state, ch).next = None

\* lines 148-153: step every thread of cur on the char at pos, then swap
AdvanceStep ==
    /\ epc = "loop"
    /\ pos < StrLen(text)
    /\ ~StepPanics(prog, threads.cur, CharAt(text, pos))
    /\ LET ch == CharAt(text, pos)
           st == AdvanceAll(prog, [threads |-> threads, acc |-> acc], 1, ch, pos)
       IN /\ threads' = ProgThreadsSwap(st.threads)
          /\ acc' = st.acc
    /\ epc' = "swapped"
    /\ UNCHANGED <<prog, text, pos, ret, cvars>>

\* a scan position that does not move
NextPosStuck(p, ch) == p

\* line 163: pos += ch.len_utf8()
NextPos(p, ch) == p + LenUtf8(ch)

\* lines 155-173: early exit, advance pos, skip ahead or inject a fresh thread
ResumeStep ==
    /\ epc = "swapped"
    /\ LET ch == CharAt(text, pos)
           npos == NextPos(pos, ch)
       IN IF IsSome(acc) /\ StartsAfter(threads.cur, Unwrap(acc)[1])
          THEN /\ ret' = acc
               /\ epc' = "done"
               /\ UNCHANGED <<threads, pos>>
          ELSE IF threads.cur.threads = << >>
          THEN LET sk == Skip(prog, text, npos, Some(ch))
               IN IF IsSome(sk)
                  THEN /\ pos' = Unwrap(sk)[2]
                       /\ threads' =
                            [threads EXCEPT
                               !.cur = ThreadsAdd(threads.cur, Unwrap(sk)[3], Unwrap(sk)[1])]
                       /\ epc' = "loop"
                       /\ UNCHANGED ret
                  ELSE /\ ret' = None
                       /\ epc' = "done"
                       /\ pos' = npos
                       /\ UNCHANGED threads
          ELSE /\ pos' = npos
               /\ epc' = "loop"
               /\ threads' =
                    (LET ini == StateAfter(prog, Some(ch))
                     IN IF IsSome(ini)
                        THEN [threads EXCEPT
                                !.cur = ThreadsAdd(threads.cur, Unwrap(ini), npos)]
                        ELSE threads)
               /\ UNCHANGED ret
    /\ UNCHANGED <<prog, text, acc, cvars>>

\* lines 176-181: the end-of-input check of the live threads
EoiResult(p, t, s) ==
    LET hits == {i \in 1..Len(t.threads) : CheckEoi(p, t.threads[i].state)}
    IN IF hits = {} THEN None
       ELSE Some(<<t.threads[SetMin(hits)].start_idx, StrLen(s)>>)

EoiStep ==
    /\ epc = "loop"
    /\ pos >= StrLen(text)
    /\ ret' = EoiResult(prog, threads.cur, text)
    /\ epc' = "done"
    /\ UNCHANGED <<prog, text, threads, acc, pos, cvars>>

EngineNext == StartQuery \/ AdvanceStep \/ ResumeStep \/ EoiStep

Spec == EngineInit /\ [][EngineNext]_vars

(***************************************************************************)
(* Reference semantics of a program on a text: what a match is.            *)
(* A thread started at char index k (1-based; Len(s)+1 is the end) runs    *)
(* the program from init.state_after(the char before k); it matches        *)
(* (start, end) at the first position whose step reports accept, or at     *)
(* the end of the input when check_eoi holds there.                        *)
(***************************************************************************)
ThreadNext(p, state, ch) ==
    LET r == ProgStep(p, state, ch)
    IN IF r.retry THEN ProgStep(p, Unwrap(r.next), ch).next ELSE r.next

RECURSIVE RunFrom(_, _, _, _)
RunFrom(p, s, state, k) ==
    IF k > Len(s)
    THEN IF CheckEoi(p, state) THEN Some(StrLen(s)) ELSE None
    ELSE IF ProgStep(p, state, s[k]).accept THEN Some(OffsetOf(s, k))
    ELSE LET n == ThreadNext(p, state, s[k])
         IN IF n = None THEN None ELSE RunFrom(p, s, Unwrap(n), k + 1)

MatchFrom(p, s, k) ==
    LET ini == StateAfter(p, IF k = 1 THEN None ELSE Some(s[k - 1]))
    IN IF ini = None THEN None ELSE RunFrom(p, s, Unwrap(ini), k)

\* the earliest-starting match and, for that start, the shortest one
ShortestMatch(p, s) ==
    LET starts == {k \in 1..(Len(s) + 1) : IsSome(MatchFrom(p, s, k))}
    IN IF starts = {} THEN None
       ELSE Some(<<OffsetOf(s, SetMin(starts)), Unwrap(MatchFrom(p, s, SetMin(starts)))>>)

\* C1: shortest_match returns the earliest-starting, then shortest, match of
\* the text, and None exactly when the text holds no match.
C1_ReturnsEarliestShortest ==
    epc = "done" => ret = ShortestMatch(prog, text)

(***************************************************************************)
(*                          THE COMPILER (nfa.rs)                          *)
(***************************************************************************)

(***************************************************************************)
(* CharRange, CharSet, CharMultiMap<T>, CharMap<T> (char_map.rs is not     *)
(* part of the sources; modelled from their uses and the specification).   *)
(*   CharRange       <<start, end>>, both inclusive                        *)
(*   CharSet         a set of disjoint, non-adjacent CharRanges            *)
(*   CharMultiMap    a sequence of <<range, value>> (a Vec, push appends)  *)
(*   CharMap         a set of <<range, value>> with disjoint ranges        *)
(***************************************************************************)
MaxCodePoint == 1114111        \* 0x10FFFF

Max2(a, b) == IF a >= b THEN a ELSE b
Min2(a, b) == IF a <= b THEN a ELSE b

CharRangeNew(a, b) == <<a, b>>
CharRangeSingle(c) == <<c, c>>
CharRangeFull == <<0, MaxCodePoint>>
InRange(c, r) == r[1] <= c /\ c <= r[2]
RangeIsect(r, q) == <<Max2(r[1], q[1]), Min2(r[2], q[2])>>
RangeNonEmpty(r) == r[1] <= r[2]

SeqRange(s) == {s[i] : i \in 1..Len(s)}

\* the canonical CharSet covering the same code points as the ranges of S
Normalize(S) ==
    LET R == {r \in S : RangeNonEmpty(r)}
        starts == {r[1] : r \in {r \in R : ~\E q \in R : q[1] < r[1] /\ r[1] <= q[2] + 1}}
        ends == {r[2] : r \in {r \in R : ~\E q \in R : q[2] > r[2] /\ q[1] <= r[2] + 1}}
    IN {<<a, SetMin({e \in ends : e >= a})>> : a \in starts}

CharSetEmpty == {}
CharSetFull == {CharRangeFull}
CharSetIsFull(cs) == cs = CharSetFull
CharSetIsEmpty(cs) == cs = {}
CharSetContains(cs, c) == \E r \in cs : InRange(c, r)
CharSetUnion(a, b) == Normalize(a \cup b)
CharSetIsect(a, b) ==
    Normalize({RangeIsect(r, q) : r \in a, q \in b})
CharSetNegate(a) ==
    LET gapsAfter == {<<r[2] + 1,
                        IF \E q \in a : q[1] > r[2]
                        THEN SetMin({q[1] : q \in {q \in a : q[1] > r[2]}}) - 1
                        ELSE MaxCodePoint>> : r \in a}
        first == IF a = {} THEN {CharRangeFull}
                 ELSE {<<0, SetMin({r[1] : r \in a}) - 1>>}
    IN {r \in gapsAfter \cup first : RangeNonEmpty(r)}

RangeLess(r, q) == r[1] < q[1] \/ (r[1] = q[1] /\ r[2] < q[2])
MinRange(R) == CHOOSE r \in R : \A q \in R : q = r \/ RangeLess(r, q)

\* the entries <<r, v>>, r in R, in increasing order of r
RECURSIVE SortedRanges(_, _)
SortedRanges(R, v) ==
    IF R = {} THEN << >>
    ELSE <<<<MinRange(R), v>>>> \o SortedRanges(R \ {MinRange(R)}, v)

\* CharMultiMap::intersect(&CharSet): every entry cut down to the set
RECURSIVE MultiMapIsect(_, _)
MultiMapIsect(m, cs) ==
    IF m = << >> THEN << >>
    ELSE LET e == Head(m)
             \* the pieces of e's range inside cs, in increasing order
             pieces == {RangeIsect(e[1], q) : q \in cs}
             keep == {r \in pieces : RangeNonEmpty(r)}
         IN SortedRanges(keep, e[2]) \o MultiMapIsect(Tail(m), cs)

\* CharMultiMap::push
MultiMapPush(m, r, v) == Append(m, <<r, v>>)

\* CharMultiMap::filter_values
RECURSIVE MultiMapFilterValues(_, _)
MultiMapFilterValues(m, keep) ==
    IF m = << >> THEN << >>
    ELSE (IF Head(m)[2] \in keep THEN <<Head(m)>> ELSE << >>)
            \o MultiMapFilterValues(Tail(m), keep)

\* CharMultiMap::group: the ranges are split where they overlap, every piece
\* maps to the set of all values of the entries covering it
Group(m) ==
    LET E == SeqRange(m)
        cuts == {e[1][1] : e \in E} \cup {e[1][2] + 1 : e \in E}
        pieces == {<<a, SetMin({b \in cuts : b > a}) - 1>> :
                        a \in {a \in cuts : \E b \in cuts : b > a}}
        valuesOf(r) == {e[2] : e \in {e \in E : e[1][1] <= r[1] /\ r[2] <= e[1][2]}}
        covered == {r \in pieces : valuesOf(r) # {}}
        valueSets == {valuesOf(r) : r \in covered}
    IN UNION {{<<r, V>> : r \in Normalize({q \in covered : valuesOf(q) = V})} :
                    V \in valueSets}

\* CharMap::intersect(&CharSet)
CharMapIsect(cm, cs) ==
    {x \in {<<RangeIsect(e[1], q), e[2]>> : e \in cm, q \in cs} : RangeNonEmpty(x[1])}

\* CharMap::get
CharMapGet(cm, c) ==
    IF \E e \in cm : InRange(c, e[1])
    THEN Some((CHOOSE e \in cm : InRange(c, e[1]))[2])
    ELSE None

\* a CharMap's entries in increasing order of their ranges
RECURSIVE CharMapSeq(_)
CharMapSeq(cm) ==
    IF cm = {} THEN << >>
    ELSE LET r == MinRange({e[1] : e \in cm})
             e == CHOOSE x \in cm : x[1] = r
         IN <<e>> \o CharMapSeq(cm \ {e})

(***************************************************************************)
(* Accept, Predicate, PredicatePart (transition.rs) and DfaAccept (dfa.rs) *)
(* are not part of the sources; modelled from the specification.           *)
(***************************************************************************)
Accept(at_eoi, at_char) == [at_eoi |-> at_eoi, at_char |-> at_char]
AcceptNever == Accept(FALSE, CharSetEmpty)
AcceptAlways == Accept(TRUE, CharSetFull)
AcceptIsAlways(a) == a.at_eoi /\ CharSetIsFull(a.at_char)
AcceptIsNever(a) == ~a.at_eoi /\ CharSetIsEmpty(a.at_char)
AcceptUnion(a, b) == Accept(a.at_eoi \/ b.at_eoi, CharSetUnion(a.at_char, b.at_char))

DfaAcceptRec(at_eoi, otherwise, bytes_behind) ==
    [at_eoi |-> at_eoi, otherwise |-> otherwise, bytes_behind |-> bytes_behind]
DfaAcceptNever == DfaAcceptRec(FALSE, FALSE, 0)
DfaAcceptAccept(bytes_behind) == DfaAcceptRec(TRUE, TRUE, bytes_behind)
DfaAcceptUnionShortest(a, b) ==
    DfaAcceptRec(a.at_eoi \/ b.at_eoi, a.otherwise \/ b.otherwise,
                 Max2(a.bytes_behind, b.bytes_behind))

PredicatePart(chars, at_boundary) == [chars |-> chars, at_boundary |-> at_boundary]
PartIsect(a, b) ==
    PredicatePart(CharSetIsect(a.chars, b.chars), a.at_boundary /\ b.at_boundary)
PartIsEmpty(a) == CharSetIsEmpty(a.chars) /\ ~a.at_boundary

\* Predicate(look-behind, look-ahead)
Predicate(behind, ahead) == <<behind, ahead>>

\* Predicate::intersect: None when no position satisfies both
PredIntersect(p, q) ==
    LET b == PartIsect(p[1], q[1])
        a == PartIsect(p[2], q[2])
    IN IF PartIsEmpty(b) \/ PartIsEmpty(a) THEN None ELSE Some(Predicate(b, a))

\* Predicate::filter_transitions: in-edges cut by the look-behind chars,
\* out-edges by the look-ahead chars
PredFilterTransitions(p, in_trans, out_trans) ==
    <<CharMapIsect(in_trans, p[1].chars), CharMapIsect(out_trans, p[2].chars)>>

\* Predicate::filter_accept
PredFilterAccept(p, a) ==
    Accept(a.at_eoi /\ p[2].at_boundary, CharSetIsect(a.at_char, p[2].chars))

(***************************************************************************)
(* NfaState and Nfa.  State index i (0-based, as in the source) is         *)
(* states[i + 1].  StateSet (a sorted Vec<usize>) is a set where the code  *)
(* computes one (closures) and a sequence for the fields init and          *)
(* init_at_start, which the code pushes to.                                *)
(***************************************************************************)
\* NfaState::new
NfaStateNew(accept) ==
    [consuming |-> << >>, eps |-> << >>, predicates |-> << >>,
     accept |-> accept, dfa_accept |-> DfaAcceptNever]

\* Nfa::with_capacity / Nfa::new
NfaNew ==
    [states |-> << >>, init |-> << >>, init_at_start |-> << >>, init_after_char |-> {}]

NumStates(n) == Len(n.states)
StateIdx(n) == 0..(NumStates(n) - 1)
St(n, i) == n.states[i + 1]

\* Nfa::add_state
AddState(n, accept) == [n EXCEPT !.states = Append(@, NfaStateNew(accept))]

\* Nfa::add_transition
AddTransition(n, from, to, r) ==
    [n EXCEPT !.states[from + 1].consuming = MultiMapPush(@, r, to)]

\* Nfa::add_eps
AddEps(n, from, to) == [n EXCEPT !.states[from + 1].eps = Append(@, to)]

\* Nfa::add_predicate
AddPredicate(n, from, to, pred) ==
    [n EXCEPT !.states[from + 1].predicates = Append(@, <<pred, to>>)]

\* TRUE, for every v.  The loops of the compiler are written as recursive
\* operators that thread the mutated value through their iterations; a loop
\* tests Evaluated of the value it is handed before anything else, so that
\* every iteration's value is worked out when the next iteration begins, as
\* the statements of the code are.
Evaluated(v) == v = v

\* the Vec whose element k - 1 is f[k], for k in 1..len
RECURSIVE VecOf(_, _)
VecOf(f, len) == IF len = 0 THEN << >> ELSE Append(VecOf(f, len - 1), f[len])

\* the elements of a set of numbers in increasing order (a sorted Vec)
RECURSIVE SortedSeq(_)
SortedSeq(S) ==
    IF S = {} THEN << >> ELSE <<SetMin(S)>> \o SortedSeq(S \ {SetMin(S)})

\* Nfa::eps_closure: the states are added round by round until none is new
RECURSIVE EpsClosureLoop(_, _, _)
EpsClosureLoop(n, reached, new_states) ==
    IF new_states = {} THEN reached
    ELSE LET next_states ==
                {t \in UNION {SeqRange(St(n, s).eps) : s \in new_states} : t \notin reached}
         IN EpsClosureLoop(n, reached \cup next_states, next_states)

\* an eps_closure that stops after its first round
EpsClosureOneRound(n, S) ==
    S \cup UNION {SeqRange(St(n, s).eps) : s \in S}

\* lines 647-663: the HashSet ret when the loop has ended
EpsClosure(n, S) == EpsClosureLoop(n, S, S)

\* Nfa::eps_closure on a Vec, lines 646-668: ret collected into a Vec and
\* sorted
EpsClosureVec(n, states) == SortedSeq(EpsClosure(n, SeqRange(states)))

\* Nfa::eps_closure_single
EpsClosureSingle(n, state) == EpsClosure(n, {state})

\* Nfa::accept: the fold of Accept::union over the states, in increasing order
RECURSIVE NfaAcceptFold(_, _, _)
NfaAcceptFold(n, a, s) ==
    IF s = << >> THEN a
    ELSE NfaAcceptFold(n, AcceptUnion(a, St(n, Head(s)).accept), Tail(s))

NfaAccept(n, S) == NfaAcceptFold(n, AcceptNever, SortedSeq(S))

\* Nfa::dfa_accept
RECURSIVE NfaDfaAcceptFold(_, _, _)
NfaDfaAcceptFold(n, a, s) ==
    IF s = << >> THEN a
    ELSE NfaDfaAcceptFold(n, DfaAcceptUnionShortest(a, St(n, Head(s)).dfa_accept), Tail(s))

NfaDfaAccept(n, S) == NfaDfaAcceptFold(n, DfaAcceptNever, SortedSeq(S))

\* states.flat_map(|s| self.states[s].transitions.consuming): s is sorted
RECURSIVE ConsumingOf(_, _)
ConsumingOf(n, s) ==
    IF s = << >> THEN << >> ELSE St(n, Head(s)).consuming \o ConsumingOf(n, Tail(s))

\* a transitions that forgets to eps-close the target sets
TransitionsUnclosed(n, S) == Group(ConsumingOf(n, SortedSeq(S)))

\* Nfa::transitions: the consuming transitions out of S, grouped, every
\* target set eps-closed
Transitions(n, S) ==
    {<<x[1], EpsClosure(n, x[2])>> : x \in Group(ConsumingOf(n, SortedSeq(S)))}

\* Nfa::predicates
RECURSIVE PredicatesOf(_, _)
PredicatesOf(n, s) ==
    IF s = << >> THEN << >> ELSE St(n, Head(s)).predicates \o PredicatesOf(n, Tail(s))

Predicates(n, S) == PredicatesOf(n, SortedSeq(S))

\* Nfa::reversed, lines 490-500: the edges of state idx, reversed, are added to r
RECURSIVE ReverseConsuming(_, _, _)
ReverseConsuming(r, idx, edges) ==
    IF Evaluated(r) /\ edges = << >> THEN r
    ELSE ReverseConsuming(AddTransition(r, Head(edges)[2], idx, Head(edges)[1]),
                          idx, Tail(edges))

\* a reversed() whose eps edges are lost
ReverseEpsLost(r, idx, targets) == r

RECURSIVE ReverseEps(_, _, _)
ReverseEps(r, idx, targets) ==
    IF Evaluated(r) /\ targets = << >> THEN r
    ELSE ReverseEps(AddEps(r, Head(targets), idx), idx, Tail(targets))

RECURSIVE ReversePredicates(_, _, _)
ReversePredicates(r, idx, preds) ==
    IF Evaluated(r) /\ preds = << >> THEN r
    ELSE ReversePredicates(AddPredicate(r, Head(preds)[2], idx, Head(preds)[1]),
                           idx, Tail(preds))

RECURSIVE ReverseStates(_, _, _)
ReverseStates(n, r, idx) ==
    IF Evaluated(r) /\ idx >= NumStates(n) THEN r
    ELSE ReverseStates(n,
            ReversePredicates(
                ReverseEps(
                    ReverseConsuming(r, idx, St(n, idx).consuming),
                    idx, St(n, idx).eps),
                idx, St(n, idx).predicates),
            idx + 1)

\* Nfa::reversed
Reversed(n) ==
    ReverseStates(n,
        [NfaNew EXCEPT
            !.states = VecOf([i \in 1..NumStates(n) |-> NfaStateNew(n.states[i].accept)],
                             NumStates(n))],
        0)

\* the targets of all edges (eps, consuming, predicate) of state s
Successors(n, s) ==
    SeqRange(St(n, s).eps) \cup {e[2] : e \in SeqRange(St(n, s).consuming)}
        \cup {e[2] : e \in SeqRange(St(n, s).predicates)}

\* Nfa::reachable_from
RECURSIVE ReachableLoop(_, _, _)
ReachableLoop(n, reached, active) ==
    IF active = {} THEN reached
    ELSE LET next_active ==
                {t \in UNION {Successors(n, s) : s \in active} : t \notin reached}
         IN ReachableLoop(n, reached \cup next_active, next_active)

ReachableFrom(n, S) == ReachableLoop(n, S, S)

\* a reachable_states that forgets the backward half
ReachableStatesForward(n) ==
    ReachableFrom(n, SeqRange(n.init) \cup SeqRange(n.init_at_start)
                            \cup UNION {e[2] : e \in n.init_after_char})

\* Nfa::reachable_states
ReachableStates(n) ==
    LET init_states == SeqRange(n.init) \cup SeqRange(n.init_at_start)
                            \cup UNION {e[2] : e \in n.init_after_char}
        final_states == {i \in StateIdx(n) : ~AcceptIsNever(St(n, i).accept)}
        forward == ReachableFrom(n, init_states)
        backward == ReachableFrom(Reversed(n), final_states)
    IN forward \cap backward

\* NfaTransitions::filter_map_targets (transition.rs): every target is
\* renumbered, the edges whose target has no new number are dropped
RECURSIVE FilterMapSeq(_, _)
FilterMapSeq(s, m) ==
    IF s = << >> THEN << >>
    ELSE (IF Head(s) \in DOMAIN m THEN <<m[Head(s)]>> ELSE << >>)
            \o FilterMapSeq(Tail(s), m)

RECURSIVE FilterMapEdges(_, _)
FilterMapEdges(s, m) ==
    IF s = << >> THEN << >>
    ELSE (IF Head(s)[2] \in DOMAIN m THEN <<<<Head(s)[1], m[Head(s)[2]]>>>> ELSE << >>)
            \o FilterMapEdges(Tail(s), m)

\* a trim_unreachable that leaves init as it was
TrimUnreachableInitKept(n) ==
    LET reachable == ReachableStates(n)
        new_to_old == SortedSeq(reachable)
        old_to_new == [x \in reachable |->
                        (CHOOSE k \in 1..Len(new_to_old) : new_to_old[k] = x) - 1]
        mapState(st) ==
            [st EXCEPT !.consuming = FilterMapEdges(@, old_to_new),
                       !.eps = FilterMapSeq(@, old_to_new),
                       !.predicates = FilterMapEdges(@, old_to_new)]
    IN [states |-> VecOf([k \in 1..Len(new_to_old) |-> mapState(St(n, new_to_old[k]))],
                         Len(new_to_old)),
        init |-> n.init,
        init_at_start |-> FilterMapSeq(n.init_at_start, old_to_new),
        init_after_char |->
            {<<e[1], {old_to_new[x] : x \in e[2] \cap reachable}>> : e \in n.init_after_char}]

\* Nfa::trim_unreachable
TrimUnreachable(n) ==
    LET reachable == ReachableStates(n)
        new_to_old == SortedSeq(reachable)
        old_to_new == [x \in reachable |->
                        (CHOOSE k \in 1..Len(new_to_old) : new_to_old[k] = x) - 1]
        mapState(st) ==
            [st EXCEPT !.consuming = FilterMapEdges(@, old_to_new),
                       !.eps = FilterMapSeq(@, old_to_new),
                       !.predicates = FilterMapEdges(@, old_to_new)]
    IN [states |-> VecOf([k \in 1..Len(new_to_old) |-> mapState(St(n, new_to_old[k]))],
                         Len(new_to_old)),
        init |-> FilterMapSeq(n.init, old_to_new),
        init_at_start |-> FilterMapSeq(n.init_at_start, old_to_new),
        init_after_char |->
            {<<e[1], {old_to_new[x] : x \in e[2] \cap reachable}>> : e \in n.init_after_char}]

\* an optimize_for_shortest_match that trims only when its first loop has
\* cleared nothing
OptimizeTrimmingLater(n) ==
    LET Second(first) ==
            [first EXCEPT !.states = VecOf(
                    [k \in 1..NumStates(first) |->
                        IF AcceptIsAlways(first.states[k].accept)
                        THEN [first.states[k] EXCEPT !.eps = << >>]
                        ELSE first.states[k]], NumStates(first))]
        Trimmed(first) == IF first = n THEN TrimUnreachable(Second(first)) ELSE Second(first)
    IN Trimmed([n EXCEPT !.states = VecOf(
                    [k \in 1..NumStates(n) |->
                        IF AcceptIsAlways(NfaAccept(n, EpsClosureSingle(n, k - 1)))
                        THEN [n.states[k] EXCEPT !.predicates = << >>, !.consuming = << >>]
                        ELSE n.states[k]], NumStates(n))])

\* Nfa::optimize_for_shortest_match
OptimizeForShortestMatch(n) ==
    LET first == [n EXCEPT !.states = VecOf(
                    [k \in 1..NumStates(n) |->
                        IF AcceptIsAlways(NfaAccept(n, EpsClosureSingle(n, k - 1)))
                        THEN [n.states[k] EXCEPT !.predicates = << >>, !.consuming = << >>]
                        ELSE n.states[k]], NumStates(n))]
        second == [first EXCEPT !.states = VecOf(
                    [k \in 1..NumStates(n) |->
                        IF AcceptIsAlways(first.states[k].accept)
                        THEN [first.states[k] EXCEPT !.eps = << >>]
                        ELSE first.states[k]], NumStates(n))]
    IN TrimUnreachable(second)

\* a predicate_accept that forgets the predicate: the new state accepts
\* whenever the target's closure does
PredicateAcceptUnfiltered(n, pred, states) == NfaAccept(n, states)

\* Nfa::predicate_accept
PredicateAccept(n, pred, states) == PredFilterAccept(pred, NfaAccept(n, states))

(***************************************************************************)
(* Nfa::remove_predicates_once.  rp is the record of what the function     *)
(* mutates: [nfa, reversed, initial_preds].                                *)
(***************************************************************************)
\* reversed.states[target].transitions.predicates.retain(|&(_, s)| s != idx)
RECURSIVE RetainNotSource(_, _)
RetainNotSource(preds, idx) ==
    IF preds = << >> THEN << >>
    ELSE (IF Head(preds)[2] # idx THEN <<Head(preds)>> ELSE << >>)
            \o RetainNotSource(Tail(preds), idx)

\* lines 393-395: for (range, _) in init_chars { initial_preds.push(range, &new_idx) }
RECURSIVE PushInitChars(_, _, _)
PushInitChars(ip, init_chars, new_idx) ==
    IF Evaluated(ip) /\ init_chars = << >> THEN ip
    ELSE PushInitChars(MultiMapPush(ip, Head(init_chars)[1], new_idx),
                       Tail(init_chars), new_idx)

\* lines 398-401: st is the pair [nfa, reversed]
RECURSIVE AddInSources(_, _, _, _)
AddInSources(st, sources, new_idx, range) ==
    IF Evaluated(st) /\ sources = << >> THEN st
    ELSE AddInSources(
            [nfa |-> AddTransition(st.nfa, Head(sources), new_idx, range),
             reversed |-> AddTransition(st.reversed, new_idx, Head(sources), range)],
            Tail(sources), new_idx, range)

\* lines 397-402
RECURSIVE AddInTrans(_, _, _)
AddInTrans(st, in_trans, new_idx) ==
    IF Evaluated(st) /\ in_trans = << >> THEN st
    ELSE AddInTrans(
            AddInSources(st, SortedSeq(Head(in_trans)[2]), new_idx, Head(in_trans)[1]),
            Tail(in_trans), new_idx)

\* lines 403-408
RECURSIVE AddInPreds(_, _, _, _)
AddInPreds(st, preds, pred, new_idx) ==
    IF Evaluated(st) /\ preds = << >> THEN st
    ELSE LET p == PredIntersect(pred, Head(preds)[1])
             source == Head(preds)[2]
         IN AddInPreds(
                IF IsSome(p)
                THEN [nfa |-> AddPredicate(st.nfa, source, new_idx, Unwrap(p)),
                      reversed |-> AddPredicate(st.reversed, new_idx, source, Unwrap(p))]
                ELSE st,
                Tail(preds), pred, new_idx)

\* lines 410-413
RECURSIVE AddOutTargets(_, _, _, _)
AddOutTargets(st, targets, new_idx, range) ==
    IF Evaluated(st) /\ targets = << >> THEN st
    ELSE AddOutTargets(
            [nfa |-> AddTransition(st.nfa, new_idx, Head(targets), range),
             reversed |-> AddTransition(st.reversed, Head(targets), new_idx, range)],
            Tail(targets), new_idx, range)

\* lines 409-414
RECURSIVE AddOutTrans(_, _, _)
AddOutTrans(st, out_trans, new_idx) ==
    IF Evaluated(st) /\ out_trans = << >> THEN st
    ELSE AddOutTrans(
            AddOutTargets(st, SortedSeq(Head(out_trans)[2]), new_idx, Head(out_trans)[1]),
            Tail(out_trans), new_idx)

\* lines 415-420
RECURSIVE AddOutPreds(_, _, _, _)
AddOutPreds(st, preds, pred, new_idx) ==
    IF Evaluated(st) /\ preds = << >> THEN st
    ELSE LET p == PredIntersect(pred, Head(preds)[1])
             target == Head(preds)[2]
         IN AddOutPreds(
                IF IsSome(p)
                THEN [nfa |-> AddPredicate(st.nfa, new_idx, target, Unwrap(p)),
                      reversed |-> AddPredicate(st.reversed, target, new_idx, Unwrap(p))]
                ELSE st,
                Tail(preds), pred, new_idx)

\* a new state made initial at the start of the input whatever the
\* predicate's look-behind is
PushInitAtStartAlways(n, pred, in_states, new_idx) ==
    IF (in_states \cap SeqRange(n.init_at_start)) # {}
    THEN [n EXCEPT !.init_at_start = Append(@, new_idx)]
    ELSE n

\* lines 381-385: the new state joins init_at_start
PushInitAtStart(n, pred, in_states, new_idx) ==
    IF pred[1].at_boundary /\ (in_states \cap SeqRange(n.init_at_start)) # {}
    THEN [n EXCEPT !.init_at_start = Append(@, new_idx)]
    ELSE n

\* the triggers of the new state, not cut down to the predicate's look-behind
InitCharsUncut(n, initial_preds, pred, in_states) ==
    IF (in_states \cap SeqRange(n.init)) # {}
    THEN MultiMapPush(MultiMapFilterValues(initial_preds, in_states), CharRangeFull, 0)
    ELSE MultiMapFilterValues(initial_preds, in_states)

\* lines 388-392: init_chars, the chars after which the new state is initial
InitChars(n, initial_preds, pred, in_states) ==
    MultiMapIsect(
        IF (in_states \cap SeqRange(n.init)) # {}
        THEN MultiMapPush(MultiMapFilterValues(initial_preds, in_states), CharRangeFull, 0)
        ELSE MultiMapFilterValues(initial_preds, in_states),
        pred[1].chars)

\* lines 364-420: one predicate (pred, idx -> pred_target_idx) is replaced
\* by a fresh state
ProcessPredicate(rp, idx, pred, pred_target_idx) ==
    LET in_states == EpsClosureSingle(rp.reversed, idx)
        out_states == EpsClosureSingle(rp.nfa, pred_target_idx)
        ft == PredFilterTransitions(pred, Transitions(rp.reversed, in_states),
                                    Transitions(rp.nfa, out_states))
        in_trans == ft[1]
        out_trans == ft[2]
        acc0 == PredicateAccept(rp.nfa, pred, out_states)
        new_idx == NumStates(rp.nfa)
        \* lines 372-384
        pushed == AddState(rp.nfa, acc0)
        n1 == PushInitAtStart(pushed, pred, in_states, new_idx)
        r1 == AddState(rp.reversed, AcceptNever)
        \* lines 388-395
        init_chars == InitChars(rp.nfa, rp.initial_preds, pred, in_states)
        ip1 == PushInitChars(rp.initial_preds, init_chars, new_idx)
        s2 == AddInTrans([nfa |-> n1, reversed |-> r1], CharMapSeq(in_trans), new_idx)
        s3 == AddInPreds(s2, Predicates(s2.reversed, in_states), pred, new_idx)
        s4 == AddOutTrans(s3, CharMapSeq(out_trans), new_idx)
        s6 == AddOutPreds(s4, Predicates(s4.nfa, out_states), pred, new_idx)
    IN [nfa |-> s6.nfa, reversed |-> s6.reversed, initial_preds |-> ip1]

\* a reversed copy that keeps the predicates removed from the Nfa
DropReversedPredsKept(r, preds, idx) == r

\* lines 360-362
RECURSIVE DropReversedPreds(_, _, _)
DropReversedPreds(r, preds, idx) ==
    IF Evaluated(r) /\ preds = << >> THEN r
    ELSE DropReversedPreds(
            [r EXCEPT !.states[Head(preds)[2] + 1].predicates = RetainNotSource(@, idx)],
            Tail(preds), idx)

\* lines 364-421: for &(ref pred, pred_target_idx) in &preds
RECURSIVE ProcessPredicates(_, _, _)
ProcessPredicates(rp, idx, preds) ==
    IF Evaluated(rp) /\ preds = << >> THEN rp
    ELSE ProcessPredicates(ProcessPredicate(rp, idx, Head(preds)[1], Head(preds)[2]),
                           idx, Tail(preds))

\* lines 357-421: the body of `for idx in 0..self.states.len()`
ProcessState(rp, idx) ==
    LET preds == St(rp.nfa, idx).predicates
        cleared == [rp.nfa EXCEPT !.states[idx + 1].predicates = << >>]
        rev1 == DropReversedPreds(rp.reversed, preds, idx)
    IN ProcessPredicates([rp EXCEPT !.nfa = cleared, !.reversed = rev1], idx, preds)

\* line 356: idx runs over the states present when the round began
RECURSIVE ProcessStates(_, _, _)
ProcessStates(rp, idx, orig_len) ==
    IF Evaluated(rp) /\ idx >= orig_len THEN rp
    ELSE ProcessStates(ProcessState(rp, idx), idx + 1, orig_len)

\* a remove_predicates_once that never asks for another round
RemovePredicatesOnceUnchanged(n, initial_preds) ==
    LET rp == ProcessStates(
                [nfa |-> n, reversed |-> Reversed(n), initial_preds |-> initial_preds],
                0, NumStates(n))
    IN [nfa |-> rp.nfa, initial_preds |-> rp.initial_preds, changed |-> FALSE]

\* Nfa::remove_predicates_once: returns [nfa, initial_preds, changed]
RemovePredicatesOnce(n, initial_preds) ==
    LET orig_len == NumStates(n)
        rp == ProcessStates(
                [nfa |-> n, reversed |-> Reversed(n), initial_preds |-> initial_preds],
                0, orig_len)
    IN [nfa |-> rp.nfa, initial_preds |-> rp.initial_preds,
        changed |-> NumStates(rp.nfa) > orig_len]

(***************************************************************************)
(* What a char-level Nfa matches: the end positions of the matches of      *)
(* text t that start at position s (positions count chars, 0..Len(t)).     *)
(* A predicate edge is passed at a position whose neighbouring chars       *)
(* satisfy it; a state accepts at a position according to its Accept.      *)
(***************************************************************************)
PartHolds(part, t, k) ==
    IF k < 1 \/ k > Len(t) THEN part.at_boundary ELSE CharSetContains(part.chars, t[k])

\* the predicate holds between t[k] and t[k + 1]
PredHolds(pred, t, k) == PartHolds(pred[1], t, k) /\ PartHolds(pred[2], t, k + 1)

RECURSIVE ZeroWidthLoop(_, _, _, _, _)
ZeroWidthLoop(n, reached, new_states, t, k) ==
    IF new_states = {} THEN reached
    ELSE LET via(q) == SeqRange(St(n, q).eps)
                        \cup {e[2] : e \in {e \in SeqRange(St(n, q).predicates) :
                                                PredHolds(e[1], t, k)}}
             more == {x \in UNION {via(q) : q \in new_states} : x \notin reached}
         IN ZeroWidthLoop(n, reached \cup more, more, t, k)

ZeroWidthClosure(n, S, t, k) == ZeroWidthLoop(n, S, S, t, k)

StepChar(n, S, c) ==
    UNION {{e[2] : e \in {e \in SeqRange(St(n, q).consuming) : InRange(c, e[1])}} : q \in S}

\* Accept: at the end of the input if at_eoi, else if the next char is in at_char
AcceptHolds(a, t, k) ==
    IF k >= Len(t) THEN a.at_eoi ELSE CharSetContains(a.at_char, t[k + 1])

AcceptsAt(n, S, t, k) == \E q \in S : AcceptHolds(St(n, q).accept, t, k)

\* the states initial at position s
InitialAt(n, t, s) ==
    SeqRange(n.init)
        \cup (IF s = 0 THEN SeqRange(n.init_at_start) ELSE {})
        \cup (IF s > 0
              THEN UNION {e[2] : e \in {e \in n.init_after_char : InRange(t[s], e[1])}}
              ELSE {})

RECURSIVE MatchEndsFrom(_, _, _, _)
MatchEndsFrom(n, t, S, k) ==
    LET Z == ZeroWidthClosure(n, S, t, k)
        here == IF AcceptsAt(n, Z, t, k) THEN {k} ELSE {}
    IN IF k >= Len(t) \/ Z = {} THEN here
       ELSE here \cup MatchEndsFrom(n, t, StepChar(n, Z, t[k + 1]), k + 1)

MatchEnds(n, t, s) == MatchEndsFrom(n, t, InitialAt(n, t, s), s)

\* all matches <<start, end>> of the text
Matches(n, t) == {<<s, e>> \in (0..Len(t)) \X (0..Len(t)) : e \in MatchEnds(n, t, s)}

(***************************************************************************)
(* The Nfas the compiler is run on: what NfaBuilder hands over (builder.rs *)
(* is not part of the sources).  Three states, state 0 initial, the last   *)
(* state accepting, and up to MaxEdges edges out of a list of candidates.  *)
(***************************************************************************)
MaxEdges == 3
MaxPredEdges == 2

RECURSIVE SubsetsUpTo(_, _)
SubsetsUpTo(S, k) ==
    IF k = 0 THEN {{}}
    ELSE LET prev == SubsetsUpTo(S, k - 1)
         IN prev \cup {T \cup {x} : T \in prev, x \in S}

\* \w restricted to ASCII, and its complement
WordChars == {<<48, 57>>, <<65, 90>>, <<95, 95>>, <<97, 122>>}
NotWordChars == CharSetNegate(WordChars)

\* ^ and $, and the two halves of \b (PredicatePart::word_char / not_word_char)
PredBeginning == Predicate(PredicatePart(CharSetEmpty, TRUE), PredicatePart(CharSetFull, TRUE))
PredEnd == Predicate(PredicatePart(CharSetFull, TRUE), PredicatePart(CharSetEmpty, TRUE))
PredWordEnd == Predicate(PredicatePart(WordChars, FALSE), PredicatePart(NotWordChars, TRUE))
PredWordStart == Predicate(PredicatePart(NotWordChars, TRUE), PredicatePart(WordChars, FALSE))

EdgeLabels ==
    <<[kind |-> "eps"],
      [kind |-> "char", range |-> CharRangeSingle(97)],
      [kind |-> "char", range |-> CharRangeSingle(233)],
      [kind |-> "pred", pred |-> PredBeginning],
      [kind |-> "pred", pred |-> PredEnd],
      [kind |-> "pred", pred |-> PredWordEnd],
      [kind |-> "pred", pred |-> PredWordStart]>>

EdgePairs == << <<0, 1>>, <<1, 2>>, <<1, 0>>, <<1, 1>> >>

\* candidate k (1-based) is pair (k - 1) \div |labels| with label (k - 1) % |labels|
NumCandidates == Len(EdgePairs) * Len(EdgeLabels)
CandidateEdge(k) ==
    [from |-> EdgePairs[((k - 1) \div Len(EdgeLabels)) + 1][1],
     to |-> EdgePairs[((k - 1) \div Len(EdgeLabels)) + 1][2],
     label |-> EdgeLabels[((k - 1) % Len(EdgeLabels)) + 1]]

AddEdge(n, e) ==
    IF e.label.kind = "eps" THEN AddEps(n, e.from, e.to)
    ELSE IF e.label.kind = "char" THEN AddTransition(n, e.from, e.to, e.label.range)
    ELSE AddPredicate(n, e.from, e.to, e.label.pred)

\* add_state x 3, then the chosen edges in increasing order, then init = [0]
BaseNfa ==
    [AddState(AddState(AddState(NfaNew, AcceptNever), AcceptNever), AcceptAlways)
        EXCEPT !.init = <<0>>]

RECURSIVE AddEdges(_, _)
AddEdges(n, ks) ==
    IF ks = << >> THEN n ELSE AddEdges(AddEdge(n, CandidateEdge(Head(ks))), Tail(ks))

BuildNfa(I) == AddEdges(BaseNfa, SortedSeq(I))

HasPredicates(n) == \E i \in StateIdx(n) : St(n, i).predicates # << >>

\* the edge sets of the family: at most MaxEdges edges, at most MaxPredEdges
\* of them predicates
EdgeSets ==
    {I \in SubsetsUpTo(1..NumCandidates, MaxEdges) :
        Cardinality({k \in I : CandidateEdge(k).label.kind = "pred"}) <= MaxPredEdges}

BuiltNfas == {BuildNfa(I) : I \in EdgeSets}

(***************************************************************************)
(* Nfa::remove_predicates as a process.                                    *)
(*   "start"   before the call                                             *)
(*   "round"   at a call of remove_predicates_once                         *)
(*   "group"   the loop has ended, init_after_char is not yet built        *)
(*   "done"    returned                                                    *)
(* work = [initial_preds, rounds]; rounds counts the calls made.  A round   *)
(* is followed only from an Nfa of at most MaxNfaStates states.            *)
(***************************************************************************)
MaxNfaStates == 16

EngineIdle ==
    /\ prog = << >>
    /\ text = << >>
    /\ threads = << >>
    /\ acc = None
    /\ pos = 0
    /\ epc = "unused"
    /\ ret = None

PredInit ==
    /\ EngineIdle
    /\ nfa \in BuiltNfas
    /\ orig = nfa
    /\ max_states = 0
    /\ work = [initial_preds |-> << >>, rounds |-> 0]
    /\ out = << >>
    /\ cpc = "start"

\* lines 321-326
RpBegin ==
    /\ cpc = "start"
    /\ nfa' = [nfa EXCEPT !.init_at_start = nfa.init]
    /\ work' = [initial_preds |-> << >>, rounds |-> 0]
    /\ cpc' = "round"
    /\ UNCHANGED <<orig, max_states, out, evars>>

\* lines 328-331: one call of remove_predicates_once
RpRound ==
    /\ cpc = "round"
    /\ NumStates(nfa) <= MaxNfaStates
    /\ LET r == RemovePredicatesOnce(nfa, work.initial_preds)
       IN /\ nfa' = r.nfa
          /\ work' = [initial_preds |-> r.initial_preds, rounds |-> work.rounds + 1]
          /\ cpc' = IF r.changed THEN "round" ELSE "group"
    /\ UNCHANGED <<orig, max_states, out, evars>>

\* line 332
RpFinish ==
    /\ cpc = "group"
    /\ nfa' = [nfa EXCEPT !.init_after_char = Group(work.initial_preds)]
    /\ cpc' = "done"
    /\ UNCHANGED <<orig, max_states, work, out, evars>>

PredNext == RpBegin \/ RpRound \/ RpFinish

SpecPred == PredInit /\ [][PredNext]_vars

(***************************************************************************)
(* Predicate elimination: what holds of the Nfa remove_predicates returns. *)
(***************************************************************************)

\* C3: when remove_predicates has returned, no state of the Nfa, original or
\* created on the way, has an entry in its predicates list.
C3_NoPredicatesLeft ==
    cpc = "done" => \A i \in StateIdx(nfa) : St(nfa, i).predicates = << >>

\* a call that returned for an Nfa that had predicates, after a round that
\* itself had predicates of new states to remove
C3_Witness ==
    /\ cpc = "done"
    /\ HasPredicates(orig)
    /\ work.rounds >= 3

\* C4: remove_predicates preserves the matches: on every text and from every
\* start position, the Nfa returned, read through init, init_at_start,
\* init_after_char and the accept profiles, has the matches the Nfa given had
\* with each predicate judged on the chars around the position.
C4_LanguagePreserved ==
    cpc = "done" => \A t \in Texts : Matches(nfa, t) = Matches(orig, t)

\* a call that returned for an Nfa whose predicates decide: a text where a
\* predicate edge is passed at one position and refused at another
C4_Witness ==
    /\ cpc = "done"
    /\ \E t \in Texts, i \in StateIdx(orig), k1, k2 \in 0..MaxTextLen :
            /\ k1 <= Len(t) /\ k2 <= Len(t)
            /\ \E j \in 1..Len(St(orig, i).predicates) :
                    /\ PredHolds(St(orig, i).predicates[j][1], t, k1)
                    /\ ~PredHolds(St(orig, i).predicates[j][1], t, k2)
            /\ Matches(orig, t) # {}

\* C5: remove_predicates terminates on every Nfa, predicate cycles and chains
\* included: the loop reaches a round that adds no state.  As a property of
\* the states: no call is still asking for another round once its Nfa has
\* outgrown MaxNfaStates states, which every call of the family that does
\* return stays under.
C5_RemovePredicatesTerminates ==
    ~(cpc = "round" /\ NumStates(nfa) > MaxNfaStates)

(***************************************************************************)
(*                     BYTE LOWERING (nfa.rs 216-313)                      *)
(* A Utf8Range is a pair <<start, end>> of bytes, a Utf8Sequence a         *)
(* sequence of one to four Utf8Ranges.  CharRange::to_char_pair            *)
(* (char_map.rs) and Utf8Sequences (crate utf8_ranges) are not part of the *)
(* sources; they are modelled from what they compute.                      *)
(***************************************************************************)
\* CharRange::to_char_pair: the range cut down to scalar values (the
\* surrogates U+D800..U+DFFF are no chars), None when nothing is left
ToCharPair(r) ==
    LET start == IF r[1] > 55295 /\ r[1] < 57344 THEN 57344 ELSE r[1]
        end == IF r[2] > MaxCodePoint THEN MaxCodePoint
               ELSE IF r[2] > 55295 /\ r[2] < 57344 THEN 55295 ELSE r[2]
    IN IF start > end THEN None ELSE Some(<<start, end>>)

\* the UTF-8 encoding of a scalar value
EncodeUtf8(c) ==
    IF c < 128 THEN <<c>>
    ELSE IF c < 2048 THEN <<192 + (c \div 64), 128 + (c % 64)>>
    ELSE IF c < 65536
         THEN <<224 + (c \div 4096), 128 + ((c \div 64) % 64), 128 + (c % 64)>>
    ELSE <<240 + (c \div 262144), 128 + ((c \div 4096) % 64),
           128 + ((c \div 64) % 64), 128 + (c % 64)>>

\* one turn of the inner loop of Utf8Sequences::next on the range r: the
\* range is split (the first part is gone on with, the second pushed),
\* dropped, or encoded as one sequence
Utf8Step(r) ==
    LET s == r[1]
        e == r[2]
        maxScalar == <<127, 2047, 65535>>
        Mask(i) == 2^(6 * i) - 1
        Low(x, i) == x % (Mask(i) + 1)
        High(x, i) == x - Low(x, i)
        crossing == {i \in 1..3 : s <= maxScalar[i] /\ maxScalar[i] < e}
        uneven == {i \in 1..3 : /\ High(s, i) # High(e, i)
                                /\ (Low(s, i) # 0 \/ Low(e, i) # Mask(i))}
        Split(a, b) == [kind |-> "split", now |-> a, later |-> b]
    IN IF s < 57344 /\ e > 55295 THEN Split(<<s, 55295>>, <<57344, e>>)
       ELSE IF s > e THEN [kind |-> "none"]
       ELSE IF crossing # {}
            THEN LET max == maxScalar[SetMin(crossing)]
                 IN Split(<<s, max>>, <<max + 1, e>>)
       ELSE IF e <= 127 THEN [kind |-> "seq", seq |-> <<r>>]
       ELSE IF uneven # {}
            THEN LET i == SetMin(uneven)
                 IN IF Low(s, i) # 0
                    THEN Split(<<s, High(s, i) + Mask(i)>>, <<High(s, i) + Mask(i) + 1, e>>)
                    ELSE Split(<<s, High(e, i) - 1>>, <<High(e, i), e>>)
       ELSE [kind |-> "seq",
             seq |-> VecOf([k \in 1..Len(EncodeUtf8(s)) |->
                                <<EncodeUtf8(s)[k], EncodeUtf8(e)[k]>>],
                           Len(EncodeUtf8(s)))]

\* Utf8Sequences: the sequences the iterator yields, in order, from the stack
\* of ranges still to be done (the top of the stack is its last element)
RECURSIVE Utf8Sequences(_)
Utf8Sequences(stack) ==
    IF stack = << >> THEN << >>
    ELSE LET rest == SubSeq(stack, 1, Len(stack) - 1)
             step == Utf8Step(stack[Len(stack)])
         IN IF step.kind = "split"
            THEN Utf8Sequences(rest \o <<step.later, step.now>>)
            ELSE IF step.kind = "none" THEN Utf8Sequences(rest)
            ELSE <<step.seq>> \o Utf8Sequences(rest)

\* lines 255-257: ranges.filter_map(to_char_pair).flat_map(Utf8Sequences::new)
RECURSIVE Utf8SeqsOf(_)
Utf8SeqsOf(ranges) ==
    IF ranges = << >> THEN << >>
    ELSE (IF IsSome(ToCharPair(Head(ranges)))
          THEN Utf8Sequences(<<Unwrap(ToCharPair(Head(ranges)))>>)
          ELSE << >>) \o Utf8SeqsOf(Tail(ranges))

\* MergedUtf8Sequences::merge_all: consecutive sequences with the same head
\* (all ranges but the last) become one [head, last_byte]
RECURSIVE MergeAll(_, _)
MergeAll(seqs, groups) ==
    IF Evaluated(groups) /\ seqs = << >> THEN groups
    ELSE LET seq == Head(seqs)
             h == SubSeq(seq, 1, Len(seq) - 1)
         IN MergeAll(Tail(seqs),
                IF groups # << >> /\ groups[Len(groups)].head = h
                THEN [groups EXCEPT ![Len(groups)].last_byte = Append(@, seq[Len(seq)])]
                ELSE Append(groups, [head |-> h, last_byte |-> <<seq[Len(seq)]>>]))

\* Nfa::add_utf8_sequence, lines 222-230: <<the Nfa, last_state>>
RECURSIVE AddHead(_, _, _)
AddHead(n, last_state, head) ==
    IF Evaluated(n) /\ head = << >> THEN <<n, last_state>>
    ELSE AddHead(AddTransition(AddState(n, AcceptNever), last_state, NumStates(n),
                               CharRangeNew(Head(head)[1], Head(head)[2])),
                 NumStates(n), Tail(head))

\* Nfa::add_utf8_sequence, lines 241-244
RECURSIVE AddLastBytes(_, _, _, _)
AddLastBytes(n, last_state, end_state, last_byte) ==
    IF Evaluated(n) /\ last_byte = << >> THEN n
    ELSE AddLastBytes(AddTransition(n, last_state, end_state,
                                    CharRangeNew(Head(last_byte)[1], Head(last_byte)[2])),
                      last_state, end_state, Tail(last_byte))

\* an add_utf8_sequence whose terminal state counts the head bytes only
AddUtf8SequenceHeadLen(n, start_state, end_state, seq) ==
    LET h == AddHead(n, start_state, seq.head)
        withEnd == IF IsSome(end_state) THEN h[1]
                   ELSE [AddState(h[1], AcceptNever) EXCEPT
                            !.states[NumStates(h[1]) + 1].dfa_accept =
                                DfaAcceptAccept(Len(seq.head))]
        e == IF IsSome(end_state) THEN Unwrap(end_state) ELSE NumStates(withEnd) - 1
    IN AddLastBytes(withEnd, h[2], e, seq.last_byte)

\* Nfa::add_utf8_sequence
AddUtf8Sequence(n, start_state, end_state, seq) ==
    LET h == AddHead(n, start_state, seq.head)
        withEnd == IF IsSome(end_state) THEN h[1]
                   ELSE [AddState(h[1], AcceptNever) EXCEPT
                            !.states[NumStates(h[1]) + 1].dfa_accept =
                                DfaAcceptAccept(Len(seq.head) + 1)]
        e == IF IsSome(end_state) THEN Unwrap(end_state) ELSE NumStates(withEnd) - 1
    IN AddLastBytes(withEnd, h[2], e, seq.last_byte)

\* lines 265-267
RECURSIVE AddMerged(_, _, _, _)
AddMerged(n, start_state, target, merged) ==
    IF Evaluated(n) /\ merged = << >> THEN n
    ELSE AddMerged(AddUtf8Sequence(n, start_state, target, Head(merged)),
                   start_state, target, Tail(merged))

\* Nfa::add_utf8_sequences: [nfa, ok], ok = FALSE for Err(TooManyStates)
AddUtf8Sequences(n, start_state, ranges, target, max) ==
    LET Within(merged) ==
            IF NumStates(n)
                + SumSeq(VecOf([k \in 1..Len(merged) |-> Len(merged[k].head)], Len(merged)))
                    > max
            THEN [nfa |-> n, ok |-> FALSE]
            ELSE [nfa |-> AddMerged(n, start_state, target, merged), ok |-> TRUE]
    IN Within(MergeAll(Utf8SeqsOf(ranges), << >>))

\* the ranges of the entries of trans (a Vec of <<range, target>>) to tgt, in
\* the order of trans: one group of the stable sort by target
RECURSIVE RangesTo(_, _)
RangesTo(trans, tgt) ==
    IF trans = << >> THEN << >>
    ELSE (IF Head(trans)[2] = tgt THEN <<Head(trans)[1]>> ELSE << >>)
            \o RangesTo(Tail(trans), tgt)

\* Nfa::byte_me, lines 285-291: the groups of state i, by increasing target;
\* r = [nfa, ok] is the result so far, ok = FALSE once a try! has returned
RECURSIVE ByteMeGroups(_, _, _, _, _)
ByteMeGroups(r, i, trans, tgts, max) ==
    IF ~r.ok \/ tgts = << >> THEN r
    ELSE ByteMeGroups(AddUtf8Sequences(r.nfa, i, RangesTo(trans, Head(tgts)),
                                       Some(Head(tgts)), max),
                      i, trans, Tail(tgts), max)

\* a byte_me that leaves the code-point transitions of a state in place
ByteMeStateKeeping(n, i, max) ==
    ByteMeGroups([nfa |-> n, ok |-> TRUE], i, St(n, i).consuming,
                 SortedSeq({e[2] : e \in SeqRange(St(n, i).consuming)}), max)

\* Nfa::byte_me, lines 277-291: the transitions of state i are taken out of
\* the state and added again as byte sequences
ByteMeState(n, i, max) ==
    ByteMeGroups([nfa |-> [n EXCEPT !.states[i + 1].consuming = << >>], ok |-> TRUE],
                 i, St(n, i).consuming,
                 SortedSeq({e[2] : e \in SeqRange(St(n, i).consuming)}), max)

\* Nfa::byte_me, lines 276-292: the states i..len-1, len the number of states
\* at the call
RECURSIVE ByteMeStates(_, _, _, _)
ByteMeStates(r, i, len, max) ==
    IF ~r.ok \/ i >= len THEN r
    ELSE ByteMeStates(ByteMeState(r.nfa, i, max), i + 1, len, max)

\* Nfa::byte_me
ByteMe(n, max) == ByteMeStates([nfa |-> n, ok |-> TRUE], 0, NumStates(n), max)

\* the ranges of a CharSet in increasing order
RECURSIVE CharSetSeq(_)
CharSetSeq(cs) ==
    IF cs = {} THEN << >> ELSE <<MinRange(cs)>> \o CharSetSeq(cs \ {MinRange(cs)})

\* Nfa::byte_accept, lines 299-310: state i
ByteAcceptState(n, i, max) ==
    LET eoi == [n EXCEPT !.states[i + 1].dfa_accept.at_eoi = St(n, i).accept.at_eoi]
    IN IF CharSetIsFull(St(n, i).accept.at_char)
       THEN [nfa |-> [eoi EXCEPT !.states[i + 1].dfa_accept.otherwise = TRUE], ok |-> TRUE]
       ELSE IF ~CharSetIsEmpty(St(n, i).accept.at_char)
            THEN AddUtf8Sequences(eoi, i, CharSetSeq(St(n, i).accept.at_char), None, max)
            ELSE [nfa |-> eoi, ok |-> TRUE]

\* Nfa::byte_accept, lines 298-311: the states i..len-1
RECURSIVE ByteAcceptStates(_, _, _, _)
ByteAcceptStates(r, i, len, max) ==
    IF ~r.ok \/ i >= len THEN r
    ELSE ByteAcceptStates(ByteAcceptState(r.nfa, i, max), i + 1, len, max)

\* Nfa::byte_accept
ByteAccept(n, max) == ByteAcceptStates([nfa |-> n, ok |-> TRUE], 0, NumStates(n), max)

(***************************************************************************)
(*                    DETERMINIZE (nfa.rs 585-644)                         *)
(* Dfa (dfa.rs) is not part of the sources: a Vec of states, each with its *)
(* transitions <<byte range, target>> and its DfaAccept, and the three     *)
(* initial-state fields.                                                   *)
(***************************************************************************)
DfaNew ==
    [states |-> << >>, init_otherwise |-> None, init_at_start |-> None,
     init_after_char |-> << >>]

DfaNumStates(d) == Len(d.states)

DfaAddState(d, accept) ==
    [d EXCEPT !.states = Append(@, [transitions |-> << >>, accept |-> accept])]

DfaAddTransition(d, from, to, range) ==
    [d EXCEPT !.states[from + 1].transitions = Append(@, <<range, to>>)]

\* Dfa::sort_transitions: the transitions of every state by increasing range
DfaSortTransitions(d) ==
    [d EXCEPT !.states =
        VecOf([k \in 1..Len(d.states) |->
                    [d.states[k] EXCEPT !.transitions = CharMapSeq(SeqRange(@))]],
              Len(d.states))]

\* a closure add_state that lets the Dfa grow one state past max_states
DetAddStateOnePast(n, det, s, max) ==
    IF s \in DOMAIN det.map THEN [det |-> det, idx |-> Some(det.map[s])]
    ELSE IF DfaNumStates(det.dfa) > max THEN [det |-> det, idx |-> None]
    ELSE [det |-> [dfa |-> DfaAddState(det.dfa, NfaDfaAccept(n, s)),
                   active |-> Append(det.active, s),
                   map |-> (s :> DfaNumStates(det.dfa)) @@ det.map],
          idx |-> Some(DfaNumStates(det.dfa))]

\* the closure add_state, lines 594-606.  det = [dfa, active, map] is what it
\* mutates; idx is the index returned, None for Err(TooManyStates).  The new
\* state's index, num_states() - 1 after the push, is num_states() before it.
DetAddState(n, det, s, max) ==
    IF s \in DOMAIN det.map THEN [det |-> det, idx |-> Some(det.map[s])]
    ELSE IF DfaNumStates(det.dfa) >= max THEN [det |-> det, idx |-> None]
    ELSE [det |-> [dfa |-> DfaAddState(det.dfa, NfaDfaAccept(n, s)),
                   active |-> Append(det.active, s),
                   map |-> (s :> DfaNumStates(det.dfa)) @@ det.map],
          idx |-> Some(DfaNumStates(det.dfa))]

\* lines 608-620: the seeds init_otherwise and init_at_start; [det, ok]
DetSeedInits(n, max) ==
    LET det0 == [dfa |-> DfaNew, active |-> << >>, map |-> [x \in {} |-> 0]]
        SetOther(a) ==
            IF a.idx = None THEN [det |-> a.det, ok |-> FALSE]
            ELSE [det |-> [a.det EXCEPT !.dfa.init_otherwise = a.idx], ok |-> TRUE]
        SetAtStart(a) ==
            IF a.idx = None THEN [det |-> a.det, ok |-> FALSE]
            ELSE [det |-> [a.det EXCEPT !.dfa.init_at_start = a.idx], ok |-> TRUE]
        Other(init_other) ==
            IF init_other = {} THEN [det |-> det0, ok |-> TRUE]
            ELSE SetOther(DetAddState(n, det0, init_other, max))
        AtStart(r, init_at_start) ==
            IF ~r.ok \/ init_at_start = {} THEN r
            ELSE SetAtStart(DetAddState(n, r.det, init_at_start, max))
    IN AtStart(Other(EpsClosure(n, SeqRange(n.init))),
               EpsClosure(n, SeqRange(n.init_at_start)))

\* a seed of init_after_char that leaves the closure of init out
DetSeedEntryAlone(n, det, entry, max) ==
    LET Push(a) ==
            IF a.idx = None THEN [det |-> a.det, ok |-> FALSE]
            ELSE [det |-> [a.det EXCEPT !.dfa.init_after_char =
                                Append(@, <<entry[1], Unwrap(a.idx)>>)],
                  ok |-> TRUE]
        Add(init) ==
            IF init = {} THEN [det |-> det, ok |-> TRUE]
            ELSE Push(DetAddState(n, det, init, max))
    IN Add(EpsClosure(n, entry[2]))

\* lines 623-628: one entry (range, states) of init_after_char
DetSeedEntry(n, det, entry, max) ==
    LET Push(a) ==
            IF a.idx = None THEN [det |-> a.det, ok |-> FALSE]
            ELSE [det |-> [a.det EXCEPT !.dfa.init_after_char =
                                Append(@, <<entry[1], Unwrap(a.idx)>>)],
                  ok |-> TRUE]
        Add(init) ==
            IF init = {} THEN [det |-> det, ok |-> TRUE]
            ELSE Push(DetAddState(n, det, init, max))
    IN Add(EpsClosure(n, entry[2]) \cup EpsClosure(n, SeqRange(n.init)))

\* lines 622-629: the seeds of init_after_char, entry by entry
RECURSIVE DetSeedAfterChar(_, _, _, _)
DetSeedAfterChar(n, r, entries, max) ==
    IF ~r.ok \/ entries = << >> THEN r
    ELSE DetSeedAfterChar(n, DetSeedEntry(n, r.det, Head(entries), max),
                          Tail(entries), max)

\* lines 636-638: one transition (range, target) out of the popped state
DetTransition(n, det, state_idx, tr, max) ==
    LET Add(a) ==
            IF a.idx = None THEN [det |-> a.det, ok |-> FALSE]
            ELSE [det |-> [a.det EXCEPT !.dfa =
                                DfaAddTransition(@, state_idx, Unwrap(a.idx), tr[1])],
                  ok |-> TRUE]
    IN Add(DetAddState(n, det, tr[2], max))

\* lines 635-639: the transitions out of the popped state
RECURSIVE DetTransitions(_, _, _, _, _)
DetTransitions(n, r, state_idx, trans, max) ==
    IF ~r.ok \/ trans = << >> THEN r
    ELSE DetTransitions(n, DetTransition(n, r.det, state_idx, Head(trans), max),
                        state_idx, Tail(trans), max)

\* lines 632-639: the state at the end of active is popped and expanded
DetPop(n, det, max) ==
    DetTransitions(n, [det |-> [det EXCEPT !.active = SubSeq(@, 1, Len(@) - 1)],
                       ok |-> TRUE],
                   det.map[det.active[Len(det.active)]],
                   CharMapSeq(Transitions(n, det.active[Len(det.active)])), max)

\* lines 631-640: the worklist, popped from its end
RECURSIVE DetWorklist(_, _, _)
DetWorklist(n, r, max) ==
    IF ~r.ok \/ r.det.active = << >> THEN r
    ELSE DetWorklist(n, DetPop(n, r.det, max), max)

\* Nfa::determinize: [ok, dfa], ok = FALSE for Err(TooManyStates)
Determinize(n, max) ==
    LET Finish(r) ==
            IF r.ok THEN [ok |-> TRUE, dfa |-> DfaSortTransitions(r.det.dfa)]
            ELSE [ok |-> FALSE, dfa |-> DfaNew]
    IN IF NumStates(n) = 0 THEN [ok |-> TRUE, dfa |-> DfaNew]
       ELSE Finish(DetWorklist(n,
                DetSeedAfterChar(n, DetSeedInits(n, max),
                                 CharMapSeq(n.init_after_char), max),
                max))

(***************************************************************************)
(* What a byte automaton accepts.  A run that has read k bytes of bs       *)
(* accepts in a state whose DfaAccept has at_eoi when k is the end of bs,  *)
(* and otherwise when it is not; the shortest match is the first k at      *)
(* which the run accepts.                                                  *)
(***************************************************************************)
DfaAcceptHolds(a, k, len) == IF k = len THEN a.at_eoi ELSE a.otherwise

\* the state the Dfa goes to from q on the byte b
DfaStep(d, q, b) ==
    LET hits == {e \in SeqRange(d.states[q + 1].transitions) : InRange(b, e[1])}
    IN IF hits = {} THEN None ELSE Some((CHOOSE e \in hits : TRUE)[2])

\* the first k >= from at which the Dfa, in state q (an Option) after k bytes,
\* accepts; None when it never does
RECURSIVE DfaFirstAccept(_, _, _, _)
DfaFirstAccept(d, q, bs, k) ==
    IF q = None THEN None
    ELSE IF DfaAcceptHolds(d.states[Unwrap(q) + 1].accept, k, Len(bs)) THEN Some(k)
    ELSE IF k = Len(bs) THEN None
    ELSE DfaFirstAccept(d, DfaStep(d, Unwrap(q), bs[k + 1]), bs, k + 1)

\* the states the Nfa may be in after the byte b, from the states S
NfaByteStep(n, S, b) ==
    EpsClosure(n, UNION {{e[2] : e \in {x \in SeqRange(St(n, s).consuming) :
                                            InRange(b, x[1])}} : s \in S})

RECURSIVE NfaFirstAccept(_, _, _, _)
NfaFirstAccept(n, S, bs, k) ==
    IF S = {} THEN None
    ELSE IF \E s \in S : DfaAcceptHolds(St(n, s).dfa_accept, k, Len(bs)) THEN Some(k)
    ELSE IF k = Len(bs) THEN None
    ELSE NfaFirstAccept(n, NfaByteStep(n, S, bs[k + 1]), bs, k + 1)

\* the state sets the subset construction reaches from the seeds
RECURSIVE SubsetsFrom(_, _, _)
SubsetsFrom(n, reached, new) ==
    IF new = {} THEN reached
    ELSE LET next == {e[2] : e \in UNION {Transitions(n, S) : S \in new}} \ reached
         IN SubsetsFrom(n, reached \cup next, next)

SeedSets(n) ==
    {S \in {EpsClosure(n, SeqRange(n.init)), EpsClosure(n, SeqRange(n.init_at_start))}
            \cup {EpsClosure(n, e[2]) \cup EpsClosure(n, SeqRange(n.init))
                    : e \in n.init_after_char} : S # {}}

ReachableSubsets(n) == SubsetsFrom(n, SeedSets(n), SeedSets(n))

(***************************************************************************)
(* The Nfas byte-lowered: three states, at most MaxByteEdges edges, no     *)
(* predicates (remove_predicates has run), state 2 accepting.              *)
(***************************************************************************)
MaxByteEdges == 2
MaxCap == 8
MaxDetCap == 4
MaxBytesLen == 3

\* eps, 'a', U+00E9 (two bytes), a range from one-byte to two-byte chars
\* that ends above U+00FF, and the surrogates (no char at all)
ByteLabels ==
    <<[kind |-> "eps"],
      [kind |-> "char", range |-> CharRangeSingle(97)],
      [kind |-> "char", range |-> CharRangeSingle(233)],
      [kind |-> "char", range |-> CharRangeNew(97, 300)],
      [kind |-> "char", range |-> CharRangeNew(55296, 57343)]>>

ByteCandidate(k) ==
    [from |-> EdgePairs[((k - 1) \div Len(ByteLabels)) + 1][1],
     to |-> EdgePairs[((k - 1) \div Len(ByteLabels)) + 1][2],
     label |-> ByteLabels[((k - 1) % Len(ByteLabels)) + 1]]

\* the accept of state 2: always, at the end of the input only, before an
\* 'a' or a U+00E9 only
ByteAccepts ==
    {AcceptAlways, Accept(TRUE, CharSetEmpty),
     Accept(FALSE, {CharRangeSingle(97), CharRangeSingle(233)})}

\* <<init, init_at_start, init_after_char>>
InitVariants ==
    {<<<<0>>, <<0>>, {}>>, <<<<0>>, <<0, 1>>, {}>>,
     <<<<0>>, <<0>>, {<<CharRangeSingle(97), {1}>>}>>, << << >>, <<0>>, {}>>,
     <<<<0>>, << >>, {}>>, <<<<0>>, <<1>>, {}>>}

RECURSIVE AddByteEdges(_, _)
AddByteEdges(n, ks) ==
    IF ks = << >> THEN n ELSE AddByteEdges(AddEdge(n, ByteCandidate(Head(ks))), Tail(ks))

ByteNfa(I, accept, v) ==
    [AddByteEdges(AddState(AddState(AddState(NfaNew, AcceptNever), AcceptNever), accept),
                  SortedSeq(I))
        EXCEPT !.init = v[1], !.init_at_start = v[2], !.init_after_char = v[3]]

\* the family, and the Nfa without states
ByteNfas ==
    {ByteNfa(I, a, v) : I \in SubsetsUpTo(1..(Len(EdgePairs) * Len(ByteLabels)), MaxByteEdges),
                        a \in ByteAccepts, v \in InitVariants}
        \cup {NfaNew}

\* the bytes of the encodings of the labels
Bytes == {97, 195, 169, 196}
ByteStrings == SeqsUpTo(Bytes, MaxBytesLen)

(***************************************************************************)
(* byte_me, byte_accept (convert_to_byte_automaton, lines 575-576) and     *)
(* determinize as a process.                                               *)
(*   "start"     before byte_me(max_states)                                *)
(*   "lowered"   byte_me has returned out.ok                               *)
(*   "accepted"  byte_accept(max_states) has returned out.ok               *)
(*   "done"      determinize(max_states) has returned out.ok, out.dfa      *)
(* work.before is the number of states at the call that returned last.     *)
(***************************************************************************)
ByteInit ==
    /\ EngineIdle
    /\ nfa \in ByteNfas
    /\ orig = nfa
    /\ max_states \in 0..MaxCap
    /\ work = [before |-> 0]
    /\ out = << >>
    /\ cpc = "start"

\* line 575
ByteMeStep ==
    /\ cpc = "start"
    /\ \E r \in {ByteMe(nfa, max_states)} :
          /\ nfa' = r.nfa
          /\ out' = [ok |-> r.ok]
    /\ work' = [before |-> NumStates(nfa)]
    /\ cpc' = "lowered"
    /\ UNCHANGED <<orig, max_states, evars>>

\* line 576
ByteAcceptStep ==
    /\ cpc = "lowered"
    /\ out.ok
    /\ \E r \in {ByteAccept(nfa, max_states)} :
          /\ nfa' = r.nfa
          /\ out' = [ok |-> r.ok]
    /\ work' = [before |-> NumStates(nfa)]
    /\ cpc' = "accepted"
    /\ UNCHANGED <<orig, max_states, evars>>

\* determinize(m) on the byte automaton
DeterminizeStep ==
    /\ cpc = "accepted"
    /\ out.ok
    /\ \E m \in 0..MaxDetCap :
        /\ max_states' = m
        /\ out' = Determinize(nfa, m)
    /\ work' = [before |-> NumStates(nfa)]
    /\ cpc' = "done"
    /\ UNCHANGED <<nfa, orig, evars>>

ByteNext == ByteMeStep \/ ByteAcceptStep \/ DeterminizeStep

SpecByte == ByteInit /\ [][ByteNext]_vars

(***************************************************************************)
(* Byte lowering and determinization: what holds of their results.         *)
(***************************************************************************)
ConsumingRanges(n) ==
    {e[1] : e \in UNION {SeqRange(St(n, i).consuming) : i \in StateIdx(n)}}

\* C6: when byte_me has returned Ok, every consuming transition of every
\* state, the states given and the states byte_me created, is over a range
\* inside 0..=255.
C6_ByteRangesAfterByteMe ==
    (cpc = "lowered" /\ out.ok) =>
        \A r \in ConsumingRanges(nfa) : 0 <= r[1] /\ r[2] <= 255

\* byte_me returned Ok for an Nfa with a transition over chars above U+00FF,
\* and has created states
C6_Witness ==
    /\ cpc = "lowered"
    /\ out.ok
    /\ \E r \in ConsumingRanges(orig) : r[2] > 255 /\ IsSome(ToCharPair(r))
    /\ NumStates(nfa) > NumStates(orig)

\* C7: byte_me(max_states) enforces the cap: Ok only with at most max_states
\* states in the result, TooManyStates whenever lowering every transition
\* needs more than max_states states, and success is monotone in max_states.
C7_ByteMeEnforcesCap ==
    cpc = "lowered" =>
        /\ out.ok => NumStates(nfa) <= max_states
        /\ NumStates(ByteMe(orig, NumStates(orig) + 4 * MaxCap).nfa) > max_states => ~out.ok
        /\ out.ok => \A m \in max_states..MaxCap : ByteMe(orig, m).ok

\* C8: byte_accept(max_states) never lets the number of states pass
\* max_states: when it returns Ok on an Nfa of at most max_states states, the
\* Nfa afterwards, terminal accept states included, has at most max_states.
C8_ByteAcceptWithinCap ==
    (cpc = "accepted" /\ out.ok /\ work.before <= max_states) =>
        NumStates(nfa) <= max_states

\* C9: determinize(max_states) returns no Dfa of more than max_states states;
\* it returns TooManyStates exactly when the seeds and the sets reachable from
\* them are more than max_states sets, and an Nfa without states gives the
\* empty Dfa whatever max_states is.
C9_DeterminizeCap ==
    cpc = "done" =>
        /\ out.ok => DfaNumStates(out.dfa) <= max_states
        /\ ~out.ok <=> (NumStates(nfa) > 0
                            /\ Cardinality(ReachableSubsets(nfa)) > max_states)
        /\ NumStates(nfa) = 0 => (out.ok /\ out.dfa = DfaNew)

\* determinize returned a Dfa that fills the cap, of two states or more
C9_Witness ==
    /\ cpc = "done"
    /\ out.ok
    /\ max_states >= 2
    /\ DfaNumStates(out.dfa) = max_states

\* the Dfa state of the entry of init_after_char with the range r, if any
DfaInitAfter(d, r) ==
    LET hits == {e \in SeqRange(d.init_after_char) : e[1] = r}
    IN IF hits = {} THEN None ELSE Some((CHOOSE e \in hits : TRUE)[2])

\* C2: the Dfa determinize returns accepts a byte string, from an initial
\* class, exactly when the byte-lowered, predicate-free Nfa does from the
\* same class, and at the same first (shortest) position.
C2_DfaAcceptsWhatNfaAccepts ==
    (cpc = "done" /\ out.ok) =>
        \A bs \in ByteStrings :
            /\ DfaFirstAccept(out.dfa, out.dfa.init_otherwise, bs, 0)
                    = NfaFirstAccept(nfa, EpsClosure(nfa, SeqRange(nfa.init)), bs, 0)
            /\ DfaFirstAccept(out.dfa, out.dfa.init_at_start, bs, 0)
                    = NfaFirstAccept(nfa, EpsClosure(nfa, SeqRange(nfa.init_at_start)), bs, 0)
            /\ \A e \in nfa.init_after_char :
                    DfaFirstAccept(out.dfa, DfaInitAfter(out.dfa, e[1]), bs, 0)
                        = NfaFirstAccept(nfa,
                            EpsClosure(nfa, e[2]) \cup EpsClosure(nfa, SeqRange(nfa.init)),
                            bs, 0)

\* a Dfa of three states or more whose Nfa has eps edges, accepts one byte
\* string only after its second byte and refuses another
C2_Witness ==
    /\ cpc = "done"
    /\ out.ok
    /\ DfaNumStates(out.dfa) >= 3
    /\ \E i \in StateIdx(nfa) : St(nfa, i).eps # << >>
    /\ \E bs \in ByteStrings :
            /\ IsSome(DfaFirstAccept(out.dfa, out.dfa.init_otherwise, bs, 0))
            /\ Unwrap(DfaFirstAccept(out.dfa, out.dfa.init_otherwise, bs, 0)) >= 2
    /\ \E bs \in ByteStrings :
            DfaFirstAccept(out.dfa, out.dfa.init_otherwise, bs, 0) = None

(***************************************************************************)
(* The stages of the compilation on one Nfa, in any order.                 *)
(*   nfa     the Nfa                                                       *)
(*   orig    the Nfa before the last call                                  *)
(*   work    [op, steps]: the last call and the number of calls made       *)
(*   out     [ok]: FALSE when the last call returned Err(TooManyStates)    *)
(* A call of remove_predicates is followed only where it returns.          *)
(***************************************************************************)
MaxPipeEdges == 2
MaxPipeSteps == 2

\* Vec::sort on a Vec<usize>
RECURSIVE SortVec(_)
SortVec(v) ==
    IF v = << >> THEN << >>
    ELSE LET m == SetMin(SeqRange(v))
         IN SelectSeq(v, LAMBDA x : x = m) \o SortVec(SelectSeq(v, LAMBDA x : x # m))

IsSortedVec(v) == \A i \in 1..(Len(v) - 1) : v[i] <= v[i + 1]

\* the largest usize, on a machine word narrowed to UsizeBits bits
UsizeBits == 16
UsizeMax == 2 ^ UsizeBits - 1

\* `self.states.len() - 1` of lines 171 and 179: with overflow checks the
\* subtraction aborts on an empty Vec, without them it wraps around.
\* None stands for the abort.
LenMinusOne(n, overflow_checks) ==
    IF NumStates(n) = 0
    THEN (IF overflow_checks THEN None ELSE Some(UsizeMax))
    ELSE Some(NumStates(n) - 1)

\* an add_init_state that pushes without sorting
AddInitStateUnsorted(n, st, overflow_checks) ==
    IF LenMinusOne(n, overflow_checks) = None THEN [nfa |-> n, panic |-> TRUE]
    ELSE IF st > Unwrap(LenMinusOne(n, overflow_checks)) THEN [nfa |-> n, panic |-> TRUE]
    ELSE [nfa |-> [n EXCEPT !.init = Append(@, st)], panic |-> FALSE]

\* Nfa::add_init_state, lines 170-176: [nfa, panic]
AddInitState(n, st, overflow_checks) ==
    IF LenMinusOne(n, overflow_checks) = None THEN [nfa |-> n, panic |-> TRUE]
    ELSE IF st > Unwrap(LenMinusOne(n, overflow_checks)) THEN [nfa |-> n, panic |-> TRUE]
    ELSE [nfa |-> [n EXCEPT !.init = SortVec(Append(@, st))], panic |-> FALSE]

\* Nfa::add_init_at_start_state, lines 178-184
AddInitAtStartState(n, st, overflow_checks) ==
    IF LenMinusOne(n, overflow_checks) = None THEN [nfa |-> n, panic |-> TRUE]
    ELSE IF st > Unwrap(LenMinusOne(n, overflow_checks)) THEN [nfa |-> n, panic |-> TRUE]
    ELSE [nfa |-> [n EXCEPT !.init_at_start = SortVec(Append(@, st))], panic |-> FALSE]

\* Nfa::remove_predicates, lines 328-332: the rounds from r = [nfa,
\* initial_preds, changed] on; returns = FALSE where the Nfa has outgrown
\* MaxNfaStates with a round still asked for
RECURSIVE RemovePredicatesLoop(_)
RemovePredicatesLoop(r) ==
    IF ~r.changed
    THEN [nfa |-> [r.nfa EXCEPT !.init_after_char = Group(r.initial_preds)],
          returns |-> TRUE]
    ELSE IF NumStates(r.nfa) > MaxNfaStates THEN [nfa |-> r.nfa, returns |-> FALSE]
    ELSE RemovePredicatesLoop(RemovePredicatesOnce(r.nfa, r.initial_preds))

\* Nfa::remove_predicates, lines 320-333
RemovePredicates(n) ==
    RemovePredicatesLoop([nfa |-> [n EXCEPT !.init_at_start = n.init],
                          initial_preds |-> << >>, changed |-> TRUE])

\* the Nfas the stages start from: the base Nfa with at most MaxPipeEdges
\* edges
PipeNfas == {BuildNfa(I) : I \in SubsetsUpTo(1..NumCandidates, MaxPipeEdges)}

\* the caps given to byte_me and byte_accept
PipeCaps == {3, MaxCap}

PipeInit ==
    /\ EngineIdle
    /\ nfa \in PipeNfas
    /\ orig = nfa
    /\ max_states = 0
    /\ work = [op |-> "new", steps |-> 0]
    /\ out = [ok |-> TRUE]
    /\ cpc = "pipe"

PipeCalled(op) ==
    /\ work' = [op |-> op, steps |-> work.steps + 1]
    /\ orig' = nfa
    /\ UNCHANGED <<cpc, evars>>

\* add_init_state(st), st a state of the Nfa
PipeAddInitState ==
    /\ work.steps < MaxPipeSteps
    /\ \E st \in StateIdx(nfa), c \in BOOLEAN :
        /\ ~AddInitState(nfa, st, c).panic
        /\ nfa' = AddInitState(nfa, st, c).nfa
    /\ out' = [ok |-> TRUE]
    /\ PipeCalled("add_init_state")
    /\ UNCHANGED max_states

\* add_init_at_start_state(st), st a state of the Nfa
PipeAddInitAtStartState ==
    /\ work.steps < MaxPipeSteps
    /\ \E st \in StateIdx(nfa), c \in BOOLEAN :
        /\ ~AddInitAtStartState(nfa, st, c).panic
        /\ nfa' = AddInitAtStartState(nfa, st, c).nfa
    /\ out' = [ok |-> TRUE]
    /\ PipeCalled("add_init_at_start_state")
    /\ UNCHANGED max_states

PipeRemovePredicates ==
    /\ work.steps < MaxPipeSteps
    /\ \E r \in {RemovePredicates(nfa)} :
        /\ r.returns
        /\ nfa' = r.nfa
    /\ out' = [ok |-> TRUE]
    /\ PipeCalled("remove_predicates")
    /\ UNCHANGED max_states

PipeOptimize ==
    /\ work.steps < MaxPipeSteps
    /\ nfa' = OptimizeForShortestMatch(nfa)
    /\ out' = [ok |-> TRUE]
    /\ PipeCalled("optimize_for_shortest_match")
    /\ UNCHANGED max_states

PipeTrim ==
    /\ work.steps < MaxPipeSteps
    /\ nfa' = TrimUnreachable(nfa)
    /\ out' = [ok |-> TRUE]
    /\ PipeCalled("trim_unreachable")
    /\ UNCHANGED max_states

PipeByteMe ==
    /\ work.steps < MaxPipeSteps
    /\ \E m \in PipeCaps :
        /\ max_states' = m
        /\ \E r \in {ByteMe(nfa, m)} :
            /\ nfa' = r.nfa
            /\ out' = [ok |-> r.ok]
    /\ PipeCalled("byte_me")

PipeByteAccept ==
    /\ work.steps < MaxPipeSteps
    /\ \E m \in PipeCaps :
        /\ max_states' = m
        /\ \E r \in {ByteAccept(nfa, m)} :
            /\ nfa' = r.nfa
            /\ out' = [ok |-> r.ok]
    /\ PipeCalled("byte_accept")

PipeNext ==
    \/ PipeAddInitState
    \/ PipeAddInitAtStartState
    \/ PipeRemovePredicates
    \/ PipeOptimize
    \/ PipeTrim
    \/ PipeByteMe
    \/ PipeByteAccept

SpecPipe == PipeInit /\ [][PipeNext]_vars

\* the edges u -> v of n, of the three kinds together
EdgeRel(n) == UNION {{<<u, v>> : v \in Successors(n, u)} : u \in StateIdx(n)}

\* the states joined to S by a path along rel, S included
RECURSIVE PathClosure(_, _)
PathClosure(rel, S) ==
    IF {e[2] : e \in {x \in rel : x[1] \in S}} \subseteq S THEN S
    ELSE PathClosure(rel, S \cup {e[2] : e \in {x \in rel : x[1] \in S}})

InitStates(n) ==
    SeqRange(n.init) \cup SeqRange(n.init_at_start)
        \cup UNION {e[2] : e \in n.init_after_char}

\* the states on a path from an initial state to a state that can accept
LiveStates(n) ==
    PathClosure(EdgeRel(n), InitStates(n))
        \cap PathClosure({<<e[2], e[1]>> : e \in EdgeRel(n)},
                         {i \in StateIdx(n) : ~AcceptIsNever(St(n, i).accept)})

\* C10: after trim_unreachable every state left is on a path from an initial
\* state to a state whose accept is not never, reachable_states() of the
\* trimmed Nfa is all of its states, and the states left are the
\* reachable_states() of the Nfa before, renumbered in increasing order.
C10_TrimKeepsExactlyReachable ==
    work.op = "trim_unreachable" =>
        /\ LiveStates(nfa) = StateIdx(nfa)
        /\ ReachableStates(nfa) = StateIdx(nfa)
        /\ ReachableStates(orig) = LiveStates(orig)
        /\ NumStates(nfa) = Cardinality(LiveStates(orig))
        /\ \A k \in 1..NumStates(nfa) :
                /\ St(nfa, k - 1).accept = St(orig, SortedSeq(LiveStates(orig))[k]).accept
                /\ {SortedSeq(LiveStates(orig))[v + 1] : v \in Successors(nfa, k - 1)}
                        = Successors(orig, SortedSeq(LiveStates(orig))[k])
                                \cap LiveStates(orig)

\* a trim that has dropped a state in front of one it kept, and an edge
C10_Witness ==
    /\ work.op = "trim_unreachable"
    /\ NumStates(nfa) >= 2
    /\ NumStates(nfa) < NumStates(orig)
    /\ 0 \notin LiveStates(orig)
    /\ Cardinality(EdgeRel(nfa)) < Cardinality(EdgeRel(orig))

\* C11: optimize_for_shortest_match is idempotent: applied to the Nfa it has
\* returned, it returns an equal Nfa (states, transitions, accepts and the
\* three initial-state fields).
C11_OptimizeIdempotent ==
    work.op = "optimize_for_shortest_match" => OptimizeForShortestMatch(nfa) = nfa

\* optimize_for_shortest_match has cleared the transitions of a live state
\* that accepts through its eps-closure, and has dropped a state
C11_Witness ==
    /\ work.op = "optimize_for_shortest_match"
    /\ NumStates(nfa) >= 2
    /\ NumStates(nfa) < NumStates(orig)
    /\ \E i \in ReachableStates(orig) :
            /\ St(orig, i).consuming # << >>
            /\ AcceptIsAlways(NfaAccept(orig, EpsClosureSingle(orig, i)))

(***************************************************************************)
(* reversed() and eps_closure() applied to the Nfas of the family.         *)
(*   "start"           nothing called                                      *)
(*   "reversed"        out = nfa.reversed()                                *)
(*   "reversed_twice"  out = nfa.reversed().reversed()                     *)
(*   "closed"          out = nfa.eps_closure(work.states)                  *)
(***************************************************************************)
MaxClosureArg == 2

FnInit ==
    /\ EngineIdle
    /\ nfa \in BuiltNfas
    /\ orig = nfa
    /\ max_states = 0
    /\ work = [states |-> << >>]
    /\ out = << >>
    /\ cpc = "start"

ReversedStep ==
    /\ cpc \in {"start", "reversed"}
    /\ out' = Reversed(IF cpc = "start" THEN nfa ELSE out)
    /\ cpc' = IF cpc = "start" THEN "reversed" ELSE "reversed_twice"
    /\ UNCHANGED <<nfa, orig, max_states, work, evars>>

\* eps_closure(states), states a Vec of states of the Nfa in any order
EpsClosureStep ==
    /\ cpc = "start"
    /\ \E states \in SeqsUpTo(StateIdx(nfa), MaxClosureArg) :
        /\ work' = [states |-> states]
        /\ out' = EpsClosureVec(nfa, states)
    /\ cpc' = "closed"
    /\ UNCHANGED <<nfa, orig, max_states, evars>>

FnNext == ReversedStep \/ EpsClosureStep

SpecFn == FnInit /\ [][FnNext]_vars

\* the edges of state u of n, by kind: <<range, target>>, target,
\* <<predicate, target>>
ConsumingEdges(n, u) == SeqRange(St(n, u).consuming)
EpsEdges(n, u) == SeqRange(St(n, u).eps)
PredicateEdges(n, u) == SeqRange(St(n, u).predicates)

\* C12: reversed().reversed() has as many states as the Nfa and, state by
\* state, the same set of consuming, eps and predicate edges.
C12_DoubleReverseRestoresEdges ==
    cpc = "reversed_twice" =>
        /\ NumStates(out) = NumStates(nfa)
        /\ \A u \in StateIdx(nfa) :
                /\ ConsumingEdges(out, u) = ConsumingEdges(nfa, u)
                /\ EpsEdges(out, u) = EpsEdges(nfa, u)
                /\ PredicateEdges(out, u) = PredicateEdges(nfa, u)

\* reversed twice, an Nfa with edges of the three kinds, a cycle among them
C12_Witness ==
    /\ cpc = "reversed_twice"
    /\ \E u \in StateIdx(nfa) : ConsumingEdges(nfa, u) # {}
    /\ \E u \in StateIdx(nfa) : EpsEdges(nfa, u) # {}
    /\ \E u \in StateIdx(nfa) : PredicateEdges(nfa, u) # {}
    /\ \E u \in StateIdx(nfa) : u \in PathClosure(EdgeRel(nfa), Successors(nfa, u))

\* the eps edges u -> v of n
EpsRel(n) == UNION {{<<u, v>> : v \in EpsEdges(n, u)} : u \in StateIdx(n)}

\* C13: eps_closure(S) is the least set that contains S and is closed under
\* the eps transitions, returned in increasing order without duplicates.
C13_EpsClosureLeastClosed ==
    cpc = "closed" =>
        /\ SeqRange(work.states) \subseteq SeqRange(out)
        /\ \A e \in EpsRel(nfa) : e[1] \in SeqRange(out) => e[2] \in SeqRange(out)
        /\ \A T \in SUBSET StateIdx(nfa) :
                (/\ SeqRange(work.states) \subseteq T
                 /\ \A e \in EpsRel(nfa) : e[1] \in T => e[2] \in T)
                    => SeqRange(out) \subseteq T
        /\ \A i \in 1..(Len(out) - 1) : out[i] < out[i + 1]

\* the closure of an unsorted Vec with a duplicate, or of one state, that
\* takes two rounds
C13_Witness ==
    /\ cpc = "closed"
    /\ Len(out) = 3
    /\ Len(work.states) >= 1
    /\ EpsClosureOneRound(nfa, SeqRange(work.states)) # SeqRange(out)

(***************************************************************************)
(* The construction interface of Nfa, called with any indices.             *)
(*   cpc     "building", or "panic" once a call has aborted                *)
(*   work    [op, steps, args, len]: the last call, the number of calls,   *)
(*           the state indices the last call was given and the number of   *)
(*           states it found                                               *)
(* An index past the end of `states` aborts where the code indexes         *)
(* `self.states[..]` with it, and nowhere else.                            *)
(***************************************************************************)
MaxBuildSteps == 3
MaxBuildStates == 2
MaxBuildIdx == 2

BuildIdx == 0..MaxBuildIdx

\* Nfa::set_byte_accept
SetByteAccept(n, st, accept) == [n EXCEPT !.states[st + 1].dfa_accept = accept]

BuildInit ==
    /\ EngineIdle
    /\ nfa = NfaNew
    /\ orig = nfa
    /\ max_states = 0
    /\ work = [op |-> "new", steps |-> 0, args |-> {}, len |-> 0]
    /\ out = [ok |-> TRUE]
    /\ cpc = "building"

BuildCalled(op, args) ==
    /\ cpc = "building"
    /\ work.steps < MaxBuildSteps
    /\ work' = [op |-> op, steps |-> work.steps + 1, args |-> args, len |-> NumStates(nfa)]
    /\ orig' = nfa
    /\ UNCHANGED <<max_states, out, evars>>

\* the call aborts: the Nfa is as it was
BuildPanics ==
    /\ nfa' = nfa
    /\ cpc' = "panic"

BuildAddState ==
    /\ NumStates(nfa) < MaxBuildStates
    /\ \E accept \in {AcceptNever, AcceptAlways} : nfa' = AddState(nfa, accept)
    /\ cpc' = cpc
    /\ BuildCalled("add_state", {})

\* line 187: states[from] is indexed, `to` is stored as it is
BuildAddTransition ==
    \E from \in BuildIdx, to \in BuildIdx :
        /\ IF from \in StateIdx(nfa)
           THEN nfa' = AddTransition(nfa, from, to, CharRangeSingle(97)) /\ cpc' = cpc
           ELSE BuildPanics
        /\ BuildCalled("add_transition", {from, to})

\* line 195
BuildAddEps ==
    \E from \in BuildIdx, to \in BuildIdx :
        /\ IF from \in StateIdx(nfa)
           THEN nfa' = AddEps(nfa, from, to) /\ cpc' = cpc
           ELSE BuildPanics
        /\ BuildCalled("add_eps", {from, to})

\* line 199
BuildAddPredicate ==
    \E from \in BuildIdx, to \in BuildIdx :
        /\ IF from \in StateIdx(nfa)
           THEN nfa' = AddPredicate(nfa, from, to, PredBeginning) /\ cpc' = cpc
           ELSE BuildPanics
        /\ BuildCalled("add_predicate", {from, to})

\* lines 170-176, built with or without overflow checks
BuildAddInitState ==
    \E st \in BuildIdx, overflow_checks \in BOOLEAN :
        /\ \E r \in {AddInitState(nfa, st, overflow_checks)} :
            IF r.panic THEN BuildPanics ELSE nfa' = r.nfa /\ cpc' = cpc
        /\ BuildCalled("add_init_state", {st})

\* lines 178-184
BuildAddInitAtStartState ==
    \E st \in BuildIdx, overflow_checks \in BOOLEAN :
        /\ \E r \in {AddInitAtStartState(nfa, st, overflow_checks)} :
            IF r.panic THEN BuildPanics ELSE nfa' = r.nfa /\ cpc' = cpc
        /\ BuildCalled("add_init_at_start_state", {st})

\* line 207
BuildSetByteAccept ==
    \E st \in BuildIdx :
        /\ IF st \in StateIdx(nfa)
           THEN nfa' = SetByteAccept(nfa, st, DfaAcceptAccept(0)) /\ cpc' = cpc
           ELSE BuildPanics
        /\ BuildCalled("set_byte_accept", {st})

BuildNext ==
    \/ BuildAddState
    \/ BuildAddTransition
    \/ BuildAddEps
    \/ BuildAddPredicate
    \/ BuildAddInitState
    \/ BuildAddInitAtStartState
    \/ BuildSetByteAccept

SpecBuild == BuildInit /\ [][BuildNext]_vars

\* every index the Nfa holds is the index of one of its states
IndicesInRange(n) ==
    /\ \A u \in StateIdx(n) : Successors(n, u) \subseteq StateIdx(n)
    /\ InitStates(n) \subseteq StateIdx(n)

BuildMutations ==
    {"add_transition", "add_eps", "add_predicate", "add_init_state",
     "add_init_at_start_state", "set_byte_accept"}

\* C14: add_transition, add_eps, add_predicate, add_init_state,
\* add_init_at_start_state and set_byte_accept abort when a state index they
\* are given, source or target, is not below the number of states, so the
\* Nfa never holds an index out of range.
C14_MutationsRejectBadIndices ==
    /\ (work.op \in BuildMutations /\ \E i \in work.args : i >= work.len)
            => cpc = "panic"
    /\ cpc = "building" => IndicesInRange(nfa)

\* C15: on an Nfa without states add_init_state(st) and
\* add_init_at_start_state(st) reject every st: the call aborts and no index
\* is recorded as initial, however `states.len() - 1` is computed.
C15_NoInitStateOnEmptyNfa ==
    (work.op \in {"add_init_state", "add_init_at_start_state"} /\ work.len = 0)
        => (cpc = "panic" /\ nfa.init = << >> /\ nfa.init_at_start = << >>)

\* C16: the initial set `init` of an Nfa contains state 0 at every point of
\* the compilation, also after optimize_for_shortest_match or
\* trim_unreachable has dropped states and renumbered the others.
C16_InitContainsStateZero == 0 \in SeqRange(nfa.init)

\* C18: init and init_at_start are in non-decreasing order after
\* add_init_state, add_init_at_start_state, remove_predicates and
\* trim_unreachable, as after every other stage.
C18_InitSetsSorted == IsSortedVec(nfa.init) /\ IsSortedVec(nfa.init_at_start)

\* remove_predicates has appended a state it created to an init_at_start
\* that it had copied from an init of two states
C18_Witness ==
    /\ work.op = "remove_predicates"
    /\ Len(nfa.init) >= 2
    /\ Len(nfa.init_at_start) > Len(nfa.init)
    /\ \E i \in SeqRange(nfa.init_at_start) : i >= NumStates(orig)

\* C19: after each of remove_predicates, optimize_for_shortest_match,
\* trim_unreachable, byte_me and byte_accept, in any order and also when
\* byte_me or byte_accept returns TooManyStates, every target of a consuming,
\* eps or predicate edge and every index in init, init_at_start and
\* init_after_char is below the number of states.
C19_IndicesStayInRange == IndicesInRange(nfa)

\* byte_me has returned TooManyStates after it had changed the Nfa that
\* remove_predicates had given more states
C19_Witness ==
    /\ work.op = "byte_me"
    /\ ~out.ok
    /\ nfa # orig
    /\ work.steps = 2
    /\ NumStates(orig) > 3

(***************************************************************************)
(* MergedUtf8Sequences::merge on its own (nfa.rs 29-50), given any         *)
(* sequences.  A Utf8Sequence is the Vec of its byte ranges <<lo, hi>>.    *)
(*   "start"    work.seqs is the argument                                  *)
(*   "merged"   out = [head, last_byte, panic] is what the call did        *)
(***************************************************************************)
MaxMergeLen == 3

\* lines 34-44: the loop over the sequences; m = [head, last_byte, panic]
RECURSIVE MergeLoop(_, _)
MergeLoop(m, seqs) ==
    IF m.panic \/ seqs = << >> THEN m
    ELSE MergeLoop(
            IF m.head = << >>
            THEN [head |-> SubSeq(Head(seqs), 1, Len(Head(seqs)) - 1),
                  last_byte |-> Append(m.last_byte, Head(seqs)[Len(Head(seqs))]),
                  panic |-> FALSE]
            ELSE IF m.head # SubSeq(Head(seqs), 1, Len(Head(seqs)) - 1)
                 THEN [m EXCEPT !.panic = TRUE]
                 ELSE [m EXCEPT !.last_byte = Append(@, Head(seqs)[Len(Head(seqs))])],
            Tail(seqs))

\* MergedUtf8Sequences::merge, lines 30-50
Merge(seqs) == MergeLoop([head |-> << >>, last_byte |-> << >>, panic |-> FALSE], seqs)

\* [a], [b-z], [C3][A9], [C3][80-BF], [C4][80-AC], [E2][82][AC]
MergeSeqs ==
    {<< <<97, 97>> >>, << <<98, 122>> >>, << <<195, 195>>, <<169, 169>> >>,
     << <<195, 195>>, <<128, 191>> >>, << <<196, 196>>, <<128, 172>> >>,
     << <<226, 226>>, <<130, 130>>, <<172, 172>> >>}

MergeInit ==
    /\ EngineIdle
    /\ nfa = NfaNew
    /\ orig = nfa
    /\ max_states = 0
    /\ work \in [seqs : SeqsUpTo(MergeSeqs, MaxMergeLen)]
    /\ out = << >>
    /\ cpc = "start"

MergeStep ==
    /\ cpc = "start"
    /\ out' = Merge(work.seqs)
    /\ cpc' = "merged"
    /\ UNCHANGED <<nfa, orig, max_states, work, evars>>

MergeNext == MergeStep

SpecMerge == MergeInit /\ [][MergeNext]_vars

\* the leading byte ranges of a sequence: all but the last
HeadOf(seq) == SubSeq(seq, 1, Len(seq) - 1)

\* C17: merge aborts whenever the sequences it is given do not all have the
\* same leading byte ranges, in whatever order they come, also when the
\* first is a single byte range and a later one has leading ranges.
C17_MergeRejectsDifferentHeads ==
    cpc = "merged" =>
        ((\E i, j \in 1..Len(work.seqs) : HeadOf(work.seqs[i]) # HeadOf(work.seqs[j]))
            => out.panic)

(***************************************************************************)
(* The matcher on every program of the interface as it is worded: step     *)
(* returns (Option<state>, accept, retry), and a step that follows a retry *)
(* on the same char neither retries nor accepts.  The states are indices   *)
(* of the program, the skipper is NoSkipper.                               *)
(*   "panic"   the query has aborted                                       *)
(***************************************************************************)
AnyStepOutcomes ==
    {StepResult(n, a, FALSE) : n \in OptState, a \in BOOLEAN}
        \cup {StepResult(n, FALSE, TRUE) : n \in {None, Some(LastInst)}}

\* "after one retry, the next step on the same character will not retry again
\* nor accept", for the steps that follow a retry
RetryOnce(step) ==
    \A q \in ProgStates, c \in Alphabet :
        (step[<<q, c>>].retry /\ IsSome(step[<<q, c>>].next)) =>
            /\ ~step[<<Unwrap(step[<<q, c>>].next), c>>].retry
            /\ ~step[<<Unwrap(step[<<q, c>>].next), c>>].accept

AnyStepTables == {st \in [ProgStates \X Alphabet -> AnyStepOutcomes] : RetryOnce(st)}

AnyPrograms ==
    [insts : {NumInsts}, step : AnyStepTables,
     eoi : {[q \in ProgStates |-> FALSE], [q \in ProgStates |-> q = LastInst]},
     init : {InitTable(Some(0), Some(0), Some(0)), InitTable(Some(0), None, None)}]

AnyInit ==
    /\ CompilerIdle
    /\ prog \in AnyPrograms
    /\ text = << >>
    /\ threads = ProgThreadsWithCapacity(prog.insts)
    /\ acc = None
    /\ pos = 0
    /\ epc = "idle"
    /\ ret = None

\* lines 150-152 when a step aborts: the query ends there
AdvancePanic ==
    /\ epc = "loop"
    /\ pos < StrLen(text)
    /\ StepPanics(prog, threads.cur, CharAt(text, pos))
    /\ epc' = "panic"
    /\ UNCHANGED <<prog, text, threads, acc, pos, ret, cvars>>

AnyNext == StartQuery \/ AdvanceStep \/ AdvancePanic \/ ResumeStep \/ EoiStep

SpecAny == AnyInit /\ [][AnyNext]_vars

\* C20: the matcher cannot fail: for every text and every program of the
\* interface, no step of shortest_match aborts; a step that reports retry
\* never leads to unwrapping an absent next state.
C20_MatcherCannotFail == epc # "panic"

(***************************************************************************)
(* The engine over several queries: shortest_match borrows the same        *)
(* ProgThreads (the RefCell of the engine) at every call, so a query       *)
(* starts from the thread lists the query before it left behind.           *)
(***************************************************************************)
\* the caller has the result (ret keeps the value returned last); the engine
\* is ready for its next query
QueryReturned ==
    /\ epc = "done"
    /\ epc' = "idle"
    /\ text' = << >>
    /\ acc' = None
    /\ pos' = 0
    /\ UNCHANGED <<prog, threads, ret, cvars>>

ReuseNext == StartQuery \/ AdvanceStep \/ ResumeStep \/ EoiStep \/ QueryReturned

SpecReuse == EngineInit /\ [][ReuseNext]_vars

\* C21: a remembered match is never discarded: once a thread with start s
\* has reported accept, the call returns a match that starts at or before s,
\* never None and never a later match.
C21_RememberedMatchKept ==
    (epc = "done" /\ IsSome(acc)) =>
        (IsSome(ret) /\ Unwrap(ret)[1] <= Unwrap(acc)[1])

\* the start indices of the threads of a list, in the order of the list
StartsOf(t) == [i \in 1..Len(t.threads) |-> t.threads[i].start_idx]

\* the call returned at line 158
ReturnedEarly == epc = "done" /\ IsSome(ret) /\ pos < StrLen(text)

\* C22: the current thread list is ordered by non-decreasing start_idx at
\* every step, and when the call returns early with the match (s, e) no
\* thread of the current list has a start index below s.
C22_EarlyExitSound ==
    /\ epc \in {"loop", "swapped", "done"} =>
            \A i, j \in 1..Len(threads.cur.threads) :
                i <= j => StartsOf(threads.cur)[i] <= StartsOf(threads.cur)[j]
    /\ ReturnedEarly =>
            /\ ret = acc
            /\ \A i \in 1..Len(threads.cur.threads) :
                    StartsOf(threads.cur)[i] >= Unwrap(ret)[1]

\* an early return with two live threads of different starts behind it
C22_Witness ==
    /\ ReturnedEarly
    /\ Len(threads.cur.threads) = 2
    /\ StartsOf(threads.cur)[1] < StartsOf(threads.cur)[2]

\* the program states of the threads of a list
StatesOf(t) == {t.threads[i].state : i \in 1..Len(t.threads)}

OnePerState(t) ==
    \A i, j \in 1..Len(t.threads) : t.threads[i].state = t.threads[j].state => i = j

\* C23: each thread list holds at most one thread per program state; at the
\* head of every loop iteration next has no threads and an all-zero bitmap,
\* and after the swap the bits of cur are those of the states of its threads;
\* in every query the engine runs, the first or a later one.
C23_BitmapsConsistent ==
    /\ epc \in {"loop", "swapped"} =>
            OnePerState(threads.cur) /\ OnePerState(threads.next)
    /\ epc = "loop" =>
            /\ threads.next.threads = << >>
            /\ \A q \in ProgStates : threads.next.states[q + 1] = 0
    /\ epc = "swapped" =>
            \A q \in ProgStates :
                threads.cur.states[q + 1] = 1 <=> q \in StatesOf(threads.cur)

\* a query that has two threads after a swap, on an engine whose query before
\* this one has returned a match
C23_Witness ==
    /\ epc = "swapped"
    /\ IsSome(ret)
    /\ Len(threads.cur.threads) = 2

\* C24: the scan position strictly increases in every loop iteration, by at
\* least the UTF-8 length of the char consumed, and never passes the end of
\* the text: the loop ends after at most text.len() iterations.
C24_PosStrictlyIncreases ==
    [][(epc = "swapped" /\ epc' = "loop") =>
            /\ pos' >= pos + LenUtf8(CharAt(text, pos))
            /\ pos' <= StrLen(text)]_vars

\* the loop has run over a text of MaxTextLen chars to its end with a thread
\* still live
C24_Witness ==
    /\ epc = "loop"
    /\ Len(text) = MaxTextLen
    /\ pos = StrLen(text)
    /\ threads.cur.threads # << >>

(***************************************************************************)
(* The seeds of determinize: which set of Nfa states each initial field of *)
(* the Dfa stands for (state_map, read from index to set).                 *)
(***************************************************************************)
\* the key of state_map that has the value idx
SeedSetOf(map, idx) == CHOOSE s \in DOMAIN map : map[s] = idx

\* lines 608-629: state_map, active_states and the Dfa after the three seeds
DetSeeds(n, max) ==
    DetSeedAfterChar(n, DetSeedInits(n, max), CharMapSeq(n.init_after_char), max)

\* C25: the set of states determinize registers as init_at_start holds the
\* eps-closure of init as well as the eps-closure of init_at_start, and the
\* Dfa has an init_at_start whenever init is not empty.
C25_InitStaysInitialAtStart ==
    (cpc = "done" /\ out.ok /\ NumStates(nfa) > 0) =>
        \A r \in {DetSeeds(nfa, max_states)} :
            /\ out.dfa.init_at_start = r.det.dfa.init_at_start
            /\ EpsClosure(nfa, SeqRange(nfa.init)) # {} => IsSome(out.dfa.init_at_start)
            /\ IsSome(out.dfa.init_at_start) =>
                    (EpsClosure(nfa, SeqRange(nfa.init))
                        \cup EpsClosure(nfa, SeqRange(nfa.init_at_start)))
                      \subseteq SeedSetOf(r.det.map, Unwrap(out.dfa.init_at_start))

\* C26: every entry (range, states) of init_after_char is registered under
\* its range with the Dfa state of eps_closure(states) united with
\* eps_closure(init); the three kinds of seed share add_state, so seeds with
\* equal sets have the same index and each set has exactly one Dfa state.
C26_SeedsRegisteredUniformly ==
    (cpc = "done" /\ out.ok /\ NumStates(nfa) > 0) =>
        \A r \in {DetWorklist(nfa, DetSeeds(nfa, max_states), max_states)} :
            /\ \A e \in nfa.init_after_char :
                    \E d \in SeqRange(out.dfa.init_after_char) :
                        /\ d[1] = e[1]
                        /\ SeedSetOf(r.det.map, d[2])
                                = EpsClosure(nfa, e[2]) \cup EpsClosure(nfa, SeqRange(nfa.init))
            /\ IsSome(out.dfa.init_otherwise) =>
                    SeedSetOf(r.det.map, Unwrap(out.dfa.init_otherwise))
                        = EpsClosure(nfa, SeqRange(nfa.init))
            /\ IsSome(out.dfa.init_at_start) =>
                    SeedSetOf(r.det.map, Unwrap(out.dfa.init_at_start))
                        = EpsClosure(nfa, SeqRange(nfa.init_at_start))
            /\ \A s, t \in DOMAIN r.det.map : r.det.map[s] = r.det.map[t] => s = t
            /\ {r.det.map[s] : s \in DOMAIN r.det.map} = 0..(DfaNumStates(out.dfa) - 1)

\* a Dfa whose init_otherwise and init_at_start are one state, the sets being
\* equal, and whose entry of init_after_char is another state
C26_Witness ==
    /\ cpc = "done"
    /\ out.ok
    /\ IsSome(out.dfa.init_otherwise)
    /\ out.dfa.init_otherwise = out.dfa.init_at_start
    /\ \E d \in SeqRange(out.dfa.init_after_char) : d[2] # Unwrap(out.dfa.init_otherwise)

(***************************************************************************)
(* The look-ahead paths of byte_accept: from a state of the Nfa that       *)
(* byte_accept was given, through the states it created, to a terminal     *)
(* state (one whose dfa_accept came from DfaAccept::accept).               *)
(***************************************************************************)
IsTerminal(n, j) == St(n, j).dfa_accept.bytes_behind > 0

\* <<the bytes read, the terminal state reached>> for every path out of s
\* that runs through states of index before or more
RECURSIVE LookAheadPaths(_, _, _)
LookAheadPaths(n, s, before) ==
    UNION {IF IsTerminal(n, e[2])
           THEN {<<<<b>>, e[2]>> : b \in e[1][1]..e[1][2]}
           ELSE {<<<<b>> \o p[1], p[2]>> :
                    b \in e[1][1]..e[1][2], p \in LookAheadPaths(n, e[2], before)}
           : e \in {x \in SeqRange(St(n, s).consuming) : x[2] >= before}}

\* the code points of a CharSet
CharsOf(cs) == UNION {r[1]..r[2] : r \in cs}

\* C29: a terminal state byte_accept creates has bytes_behind equal to the
\* number of bytes on the path to it from the accepting state, is reached
\* from that state only, and has no outgoing transitions; every state given
\* gets dfa_accept.at_eoi = accept.at_eoi and dfa_accept.otherwise exactly
\* when accept.at_char is the full set.
C29_TerminalStatesRewind ==
    (cpc = "accepted" /\ out.ok) =>
        \A pre \in {ByteMe(orig, max_states).nfa} :
            /\ NumStates(pre) = work.before
            /\ \A i \in StateIdx(pre) :
                    /\ St(nfa, i).dfa_accept.at_eoi = St(pre, i).accept.at_eoi
                    /\ St(nfa, i).dfa_accept.otherwise
                            <=> CharSetIsFull(St(pre, i).accept.at_char)
                    /\ ~IsTerminal(nfa, i)
                    /\ (~CharSetIsFull(St(pre, i).accept.at_char)
                            /\ ~CharSetIsEmpty(St(pre, i).accept.at_char)) =>
                         {p[1] : p \in LookAheadPaths(nfa, i, NumStates(pre))}
                            = {EncodeUtf8(c) : c \in CharsOf(St(pre, i).accept.at_char)}
            /\ \A j \in StateIdx(nfa) \ StateIdx(pre) :
                    IsTerminal(nfa, j) =>
                        /\ St(nfa, j).consuming = << >>
                        /\ St(nfa, j).eps = << >>
                        /\ St(nfa, j).predicates = << >>
                        /\ \E i \in StateIdx(pre) :
                            /\ ~CharSetIsEmpty(St(pre, i).accept.at_char)
                            /\ \E p \in LookAheadPaths(nfa, i, NumStates(pre)) : p[2] = j
                            /\ \A k \in StateIdx(pre) :
                                 \A p \in LookAheadPaths(nfa, k, NumStates(pre)) :
                                    p[2] = j =>
                                        (k = i /\ Len(p[1]) = St(nfa, j).dfa_accept.bytes_behind)

\* byte_accept has created a terminal state two bytes behind the accepting
\* state and another one byte behind it
C29_Witness ==
    /\ cpc = "accepted"
    /\ out.ok
    /\ \E j, k \in StateIdx(nfa) :
            /\ j >= work.before
            /\ k >= work.before
            /\ St(nfa, j).dfa_accept.bytes_behind = 2
            /\ St(nfa, k).dfa_accept.bytes_behind = 1

(***************************************************************************)
(* Nfa::remove_predicates, predicate by predicate.                         *)
(*   "start"   before the call                                             *)
(*   "round"   at a call of remove_predicates_once                         *)
(*   "state"   at the head of `for idx in 0..self.states.len()`            *)
(*   "pred"    at the head of `for &(ref pred, pred_target_idx) in &preds` *)
(*   "group"   the loop of remove_predicates has ended                     *)
(*   "done"    returned                                                    *)
(* work = [reversed, initial_preds, idx, preds, orig_len, rounds]: the     *)
(* locals of remove_predicates_once and initial_preds of its caller.  A    *)
(* round is begun only on an Nfa of at most MaxOnceStates states.          *)
(***************************************************************************)
MaxOnceStates == 8

OnceInit ==
    /\ EngineIdle
    /\ nfa \in BuiltNfas
    /\ orig = nfa
    /\ max_states = 0
    /\ work = [reversed |-> NfaNew, initial_preds |-> << >>, idx |-> 0,
               preds |-> << >>, orig_len |-> 0, rounds |-> 0]
    /\ out = << >>
    /\ cpc = "start"

\* lines 321-326
OnceBegin ==
    /\ cpc = "start"
    /\ nfa' = [nfa EXCEPT !.init_at_start = nfa.init]
    /\ cpc' = "round"
    /\ UNCHANGED <<orig, max_states, work, out, evars>>

\* lines 353-354: remove_predicates_once is entered
OnceEnter ==
    /\ cpc = "round"
    /\ NumStates(nfa) <= MaxOnceStates
    /\ work' = [work EXCEPT !.reversed = Reversed(nfa), !.idx = 0, !.preds = << >>,
                            !.orig_len = NumStates(nfa), !.rounds = @ + 1]
    /\ cpc' = "state"
    /\ UNCHANGED <<nfa, orig, max_states, out, evars>>

\* lines 357-362: the predicates of state idx are taken out of the Nfa and
\* out of the reversed copy
OnceTakeState ==
    /\ cpc = "state"
    /\ work.idx < work.orig_len
    /\ nfa' = [nfa EXCEPT !.states[work.idx + 1].predicates = << >>]
    /\ work' = [work EXCEPT
                    !.preds = St(nfa, work.idx).predicates,
                    !.reversed = DropReversedPreds(work.reversed,
                                                   St(nfa, work.idx).predicates, work.idx)]
    /\ cpc' = "pred"
    /\ UNCHANGED <<orig, max_states, out, evars>>

\* lines 364-420: the next predicate of the state is replaced by a new state
OncePredicate ==
    /\ cpc = "pred"
    /\ work.preds # << >>
    /\ \E rp \in {ProcessPredicate(
                    [nfa |-> nfa, reversed |-> work.reversed,
                     initial_preds |-> work.initial_preds],
                    work.idx, Head(work.preds)[1], Head(work.preds)[2])} :
          /\ nfa' = rp.nfa
          /\ work' = [work EXCEPT !.reversed = rp.reversed,
                                  !.initial_preds = rp.initial_preds,
                                  !.preds = Tail(work.preds)]
    /\ UNCHANGED <<orig, max_states, out, cpc, evars>>

\* line 421: the predicates of the state are done
OnceNextState ==
    /\ cpc = "pred"
    /\ work.preds = << >>
    /\ work' = [work EXCEPT !.idx = @ + 1]
    /\ cpc' = "state"
    /\ UNCHANGED <<nfa, orig, max_states, out, evars>>

\* lines 424 and 328-331: remove_predicates_once returns, its caller loops
OnceReturn ==
    /\ cpc = "state"
    /\ work.idx >= work.orig_len
    /\ cpc' = IF NumStates(nfa) > work.orig_len THEN "round" ELSE "group"
    /\ UNCHANGED <<nfa, orig, max_states, work, out, evars>>

\* line 332
OnceFinish ==
    /\ cpc = "group"
    /\ nfa' = [nfa EXCEPT !.init_after_char = Group(work.initial_preds)]
    /\ cpc' = "done"
    /\ UNCHANGED <<orig, max_states, work, out, evars>>

OnceNext ==
    \/ OnceBegin
    \/ OnceEnter
    \/ OnceTakeState
    \/ OncePredicate
    \/ OnceNextState
    \/ OnceReturn
    \/ OnceFinish

SpecOnce == OnceInit /\ [][OnceNext]_vars

\* the consuming and the predicate edges of an Nfa: <<from, label, to>>
AllConsuming(n) ==
    UNION {{<<u, e[1], e[2]>> : e \in ConsumingEdges(n, u)} : u \in StateIdx(n)}

AllPredicates(n) ==
    UNION {{<<u, e[1], e[2]>> : e \in PredicateEdges(n, u)} : u \in StateIdx(n)}

Mirror(E) == {<<e[3], e[2], e[1]>> : e \in E}

\* C30: throughout remove_predicates_once the reversed Nfa mirrors the Nfa:
\* once the predicates of a state are removed, and after every predicate
\* processed, the two have the same number of states and the reversed Nfa
\* has the consuming or predicate edge v -> u with a label exactly when the
\* Nfa has the edge u -> v with that label.
C30_ReversedMirrorsForward ==
    cpc \in {"state", "pred"} =>
        /\ NumStates(work.reversed) = NumStates(nfa)
        /\ AllConsuming(work.reversed) = Mirror(AllConsuming(nfa))
        /\ AllPredicates(work.reversed) = Mirror(AllPredicates(nfa))

\* in a second round or later, predicates of the state taken were removed and
\* states have been created in this round
C30_Witness ==
    /\ cpc = "pred"
    /\ work.rounds >= 2
    /\ NumStates(nfa) > work.orig_len
    /\ work.preds # << >>
    /\ AllConsuming(nfa) # {}
    /\ AllPredicates(nfa) # {}

\* the states from which state a is reached over eps edges alone, a included
RevEpsClosure(n, a) == {s \in StateIdx(n) : a \in EpsClosure(n, {s})}

\* state u has a consuming transition to t over a range that holds c
HasConsuming(n, u, c, t) ==
    \E e \in ConsumingEdges(n, u) : InRange(c, e[1]) /\ e[2] = t

\* chars that tell the labels and the word classes apart: 'a', U+00E9, ' ', '0'
ProbeChars == {97, 233, 32, 48}

\* the only predicate edge of n is a start-of-input predicate out of state 0
OnlyBeginningFromInit(n) ==
    \E b \in StateIdx(n) : AllPredicates(n) = {<<0, PredBeginning, b>>}

\* C27: the state created for a predicate edge (p, a -> b) joins
\* init_at_start exactly when p's look-behind holds at the start of the input
\* and the reverse eps-closure of a meets init_at_start; init is never
\* changed, so init is a subset of init_at_start after the removal.  For one
\* start-of-input predicate out of the initial state: one new state n,
\* init = {0}, init_at_start = {0, n}, and n has the consuming transitions of
\* the eps-closure of b.
C27_NewStateInitialAtStart ==
    /\ [][(cpc = "pred" /\ work.preds # << >>) =>
            /\ nfa'.init = nfa.init
            /\ NumStates(nfa') = NumStates(nfa) + 1
            /\ SeqRange(nfa'.init_at_start) \ {NumStates(nfa)} = SeqRange(nfa.init_at_start)
            /\ NumStates(nfa) \in SeqRange(nfa'.init_at_start)
                    <=> /\ Head(work.preds)[1][1].at_boundary
                        /\ (RevEpsClosure(nfa, work.idx)
                                \cap SeqRange(nfa.init_at_start)) # {}]_vars
    /\ [](cpc # "start" =>
            /\ nfa.init = orig.init
            /\ SeqRange(nfa.init) \subseteq SeqRange(nfa.init_at_start))
    /\ []((cpc = "done" /\ OnlyBeginningFromInit(orig)) =>
            /\ NumStates(nfa) = NumStates(orig) + 1
            /\ nfa.init = <<0>>
            /\ nfa.init_at_start = <<0, NumStates(orig)>>
            /\ \A b \in StateIdx(orig) :
                    <<0, PredBeginning, b>> \in AllPredicates(orig) =>
                        \A c \in ProbeChars, t \in StateIdx(nfa) :
                            HasConsuming(nfa, NumStates(orig), c, t)
                                <=> \E s \in EpsClosure(orig, {b}), t0 \in StateIdx(orig) :
                                        /\ HasConsuming(orig, s, c, t0)
                                        /\ t \in EpsClosure(orig, {t0}))

\* the call has returned for an Nfa with one start-of-input predicate out of
\* state 0, and the state created has a consuming transition
C27_Witness ==
    /\ cpc = "done"
    /\ OnlyBeginningFromInit(orig)
    /\ NumStates(nfa) = NumStates(orig) + 1
    /\ St(nfa, NumStates(orig)).consuming # << >>

\* the chars after which state s is initial according to a list of
\* <<range, state>> entries, as a CharSet
TriggersOf(entries, s) == Normalize({e[1] : e \in {x \in SeqRange(entries) : x[2] = s}})

\* the two halves of a word boundary out of state 0, and nothing else
OnlyWordBoundaryFromInit(n) ==
    \E b \in StateIdx(n) :
        /\ AllPredicates(n) = {<<0, PredWordEnd, b>>, <<0, PredWordStart, b>>}
        /\ St(n, 0).predicates = <<<<PredWordEnd, b>>, <<PredWordStart, b>>>>

\* C28: the state n created for the predicate p is recorded in initial_preds,
\* and so in init_after_char, under a code point c exactly when c is in p's
\* look-behind chars and the reverse eps-closure of p's source holds a state
\* of init (any char) or a state already recorded under c.  For a word
\* boundary out of the initial state the two new states are keyed by the
\* word chars and by the other chars.
C28_NewStateInitialAfterChar ==
    /\ [][(cpc = "pred" /\ work.preds # << >>) =>
            /\ SubSeq(work'.initial_preds, 1, Len(work.initial_preds)) = work.initial_preds
            /\ \A k \in (Len(work.initial_preds) + 1)..Len(work'.initial_preds) :
                    work'.initial_preds[k][2] = NumStates(nfa)
            /\ TriggersOf(work'.initial_preds, NumStates(nfa))
                = CharSetIsect(
                    Head(work.preds)[1][1].chars,
                    IF (RevEpsClosure(nfa, work.idx) \cap SeqRange(nfa.init)) # {}
                    THEN CharSetFull
                    ELSE Normalize(UNION {TriggersOf(work.initial_preds, s)
                                            : s \in RevEpsClosure(nfa, work.idx)}))]_vars
    /\ [](cpc = "done" =>
            \A s \in StateIdx(nfa) :
                Normalize({e[1] : e \in {x \in nfa.init_after_char : s \in x[2]}})
                    = TriggersOf(work.initial_preds, s))
    /\ []((cpc = "done" /\ OnlyWordBoundaryFromInit(orig)) =>
            /\ NumStates(nfa) = NumStates(orig) + 2
            /\ nfa.init_after_char
                = {<<r, {NumStates(orig)}>> : r \in WordChars}
                    \cup {<<r, {NumStates(orig) + 1}>> : r \in NotWordChars})

\* the call has returned for an Nfa with a word boundary out of state 0, and
\* init_after_char has entries
C28_Witness ==
    /\ cpc = "done"
    /\ OnlyWordBoundaryFromInit(orig)
    /\ nfa.init_after_char # {}

====
